---- MODULE Spec2Model ----
(***************************************************************************)
(* State-machine model of the PrivyLock backend (Django REST Framework):   *)
(* the document vault (upload, soft delete, folders), the notification     *)
(* endpoints, the notification preferences and the scheduled notification  *)
(* jobs.  The relational tables are the variables; every request handler   *)
(* and every job is one action.                                            *)
(*                                                                         *)
(* Sizes are counted in MiB (2^20 bytes) so that the tier limits fit the   *)
(* model checker's integers: 1073741824 bytes = 1024 MiB.                  *)
(* Time is counted in whole days; `now' is the current day.                *)
(***************************************************************************)
EXTENDS Integers, FiniteSets, Sequences, TLC

\* ------------------------------------------------------------------------
\* Bounds of the model
\* ------------------------------------------------------------------------
MaxDocuments == 2
MaxFolders == 3
MaxNotifications == 2
MaxDay == 3
MaxDevices == 2
MaxTokens == 2
MaxRuns == 2

\* ------------------------------------------------------------------------
\* Values
\* ------------------------------------------------------------------------
\* Python None / SQL NULL for nullable columns and foreign keys.
None == 0

Users == {"alice", "bob"}
Categories == {"identity", "vehicles"}
\* A request that leaves the optional category out (the column is nullable).
NoCategory == "none"
DocIds == 1..MaxDocuments
FolderIds == 1..MaxFolders
NotifIds == 1..MaxNotifications

\* File sizes offered by the clients of the model, in MiB.
SizeChoices == {400, 700}

\* encrypted_expiry_date values: "" (the column default) is EmptyText, a
\* ciphertext that does not decrypt is BadCipher, any other value is the
\* ciphertext of the expiry day of that number.
EmptyText == 0
BadCipher == -1
ExpiryChoices == {EmptyText, BadCipher, 3, 8}

\* storage_limits of DocumentSerializer.create, in MiB.
FREE_LIMIT == 1024
PREMIUM_LIMIT == 25600
FAMILY_LIMIT == 102400
LIFETIME_LIMIT == 10240

\* NULL in a nullable text column.
NullText == "null"

\* Usernames are the first 30 hex digits of SHA-256(email), computed by the
\* client; the names below stand for three such digests, BadUsername for a
\* string that is not 30 hex digits.
Usernames == Users \cup {"carol"}
BadUsername == "not-30-hex"
Emails == {"alice@x", "bob@x", "carol@x"}
Mobiles == {"+1000000001", "+1000000002", "+1000000003"}
GoogleIds == {"g-alice", "g-carol"}
DeviceIdentifiers == {"d1", "d2"}
DeviceRowIds == 1..MaxDevices
Tokens == 1..MaxTokens

\* Password strings a client may send: the SHA-256 digests (64 lowercase
\* hex digits) HexHashes, a 64-character string that is not lowercase hex,
\* and two plain passwords of other lengths.  "" is a missing field.
HexHashes == {"h1", "h2", "h3"}
NonHex64 == "x64"
PlainPasswords == {"p1", "p2"}
Missing == ""

\* len(raw_password) == 64
Length64(s) == s \in HexHashes \cup {NonHex64}

\* len(raw_password) == 64 and all(c in '0123456789abcdef' ...)
IsSha256Hex(s) == Length64(s) /\ s \in HexHashes

\* hashlib.sha256(raw_password.encode()).hexdigest(): the digests of the
\* three strings that are not digests themselves are h1, h2 and h3; the
\* digest of any other string is a digest no client of the model sends.
Sha256(s) ==
    CASE s = "p1" -> "h1"
      [] s = "p2" -> "h2"
      [] s = NonHex64 -> "h3"
      [] OTHER -> "h0"

\* hashlib.sha256(email.encode()).hexdigest()[:30]
EmailHash(email) ==
    CASE email = "alice@x" -> "alice"
      [] email = "bob@x" -> "bob"
      [] OTHER -> "carol"

\* AbstractBaseUser.set_unusable_password: "!" followed by random
\* characters, never equal to a SHA-256 digest.
UNUSABLE_PASSWORD == "!"

StorageLimit(tier) ==
    CASE tier = "PREMIUM" -> PREMIUM_LIMIT
      [] tier = "FAMILY" -> FAMILY_LIMIT
      [] tier = "LIFETIME" -> LIFETIME_LIMIT
      [] OTHER -> FREE_LIMIT

\* ------------------------------------------------------------------------
\* State: one variable per table, the clock, and the last response
\* ------------------------------------------------------------------------
VARIABLES
    users,          \* users table: username -> row
    devices,        \* devices table: id -> row
    issued,         \* number of email verification tokens generated so far
    documents,      \* documents table: id -> row
    versions,       \* document_versions table: set of rows
    folders,        \* folders table: id -> row
    notifications,  \* notifications table: id -> row
    prefs,          \* notification_preferences table: user -> row
    now,            \* current day
    inflight,       \* job runs and requests in progress: id -> position and locals
    resp            \* the last request or job run and its answer

vars == <<users, devices, issued, documents, versions, folders, notifications,
          prefs, now, inflight,
          resp>>

\* The answer to a request: which operation, by whom, on which row, the
\* HTTP status (0 for a job), the key of the response body ("ok", or the
\* field the error is reported under), and the size / count it reports.
Response(op, user, target, status, detail, size, count) ==
    [op |-> op, user |-> user, target |-> target, status |-> status,
     detail |-> detail, size |-> size, count |-> count]

\* uuid4 primary keys: a new row gets an identifier no existing row has.
NewId(used, universe) == CHOOSE i \in universe \ used : \A j \in universe \ used : i <= j

\* Function update that may extend the domain (INSERT or UPDATE of one row).
Put(table, id, row) == [k \in DOMAIN table \cup {id} |-> IF k = id THEN row ELSE table[k]]

\* DELETE of a set of rows.
Remove(table, ids) == [k \in DOMAIN table \ ids |-> table[k]]

\* NotificationPreference column defaults.
DEFAULT_WARNING == 80
DEFAULT_CRITICAL == 95

DefaultPrefs ==
    [in_app_enabled |-> TRUE,
     email_enabled |-> TRUE, email_expiry_alerts |-> TRUE,
     email_storage_alerts |-> TRUE, email_security_alerts |-> TRUE,
     push_enabled |-> TRUE, push_expiry_alerts |-> TRUE,
     push_storage_alerts |-> TRUE, push_security_alerts |-> TRUE,
     alert_30_days |-> TRUE, alert_15_days |-> TRUE, alert_7_days |-> TRUE,
     alert_1_day |-> TRUE, alert_on_expiry |-> TRUE,
     storage_warning_threshold |-> DEFAULT_WARNING,
     storage_critical_threshold |-> DEFAULT_CRITICAL]

\* NotificationPreference.get_or_create_for_user
GetOrCreatePrefs(p, user) == IF user \in DOMAIN p THEN p ELSE Put(p, user, DefaultPrefs)

\* An empty table.
EmptyTable == [k \in {} |-> None]

\* A users row with the column defaults of the User model.
UserRow(email, mobile_number, password, email_verified, google_id, auth_provider) ==
    [email |-> email, mobile_number |-> mobile_number, password |-> password,
     email_verified |-> email_verified, email_verification_token |-> None,
     google_id |-> google_id, auth_provider |-> auth_provider,
     last_login_at |-> None, subscription_tier |-> "FREE", storage_used |-> 0]

\* alice and bob registered with the digests of p1 and p2 as passwords and
\* verified their email addresses; carol has no account yet.
Init ==
    /\ users =
         [u \in Users |->
            IF u = "alice"
            THEN UserRow("alice@x", "+1000000001", "h1", TRUE, NullText, "local")
            ELSE UserRow("bob@x", "+1000000002", "h2", TRUE, NullText, "local")]
    /\ devices = EmptyTable
    /\ issued = 0
    /\ documents = EmptyTable
    /\ versions = {}
    /\ folders = EmptyTable
    /\ notifications = EmptyTable
    /\ prefs = EmptyTable
    /\ now = 1
    /\ inflight = EmptyTable
    /\ resp = Response("init", "alice", None, 0, "ok", 0, 0)

\* ------------------------------------------------------------------------
\* Notification creation helpers (notifications/utils.py)
\* ------------------------------------------------------------------------
\* A new Notification row: is_read, email_sent and push_sent default to
\* False and read_at to NULL; created_at is auto_now_add.
NewNotification(user, type, document, today) ==
    [user |-> user, notification_type |-> type, document |-> document,
     is_read |-> FALSE, read_at |-> None,
     email_sent |-> FALSE, push_sent |-> FALSE, created_at |-> today]

\* Parameters of NotificationCreator.create_expiry_alert; none has a default.
CreateExpiryAlertParams == {"user", "document", "days_until_expiry"}

\* Python binds a call made with keyword arguments only when every keyword
\* names a parameter and every parameter without default is given;
\* otherwise the call raises TypeError before the body runs.
CallBinds(kwargs, params) == kwargs = params

\* NotificationCreator.create_expiry_alert called with the keywords kwargs:
\* the row it inserts always has notification_type 'EXPIRY_ALERT'.
CreateExpiryAlert(n, kwargs, user, document, today) ==
    IF CallBinds(kwargs, CreateExpiryAlertParams) /\ DOMAIN n # NotifIds
    THEN Put(n, NewId(DOMAIN n, NotifIds),
             NewNotification(user, "EXPIRY_ALERT", document, today))
    ELSE n

\* ------------------------------------------------------------------------
\* Signal handlers on Document saves (notifications/signals.py)
\* ------------------------------------------------------------------------
\* Keywords create_expiry_notifications passes to create_expiry_alert.
SignalExpiryKwargs == {"document", "user", "preferences"}

\* post_save of a created Document, on the tables tx of the open
\* transaction: create_expiry_notifications gets or creates the owner's
\* preferences and calls create_expiry_alert inside try/except.
\* (monitor_storage_after_upload reads user.storage_limit, which User does
\* not define; the AttributeError is caught and nothing is written.)
PostSaveDocumentCreated(tx, id, row) ==
    IF ~row.has_expiry \/ row.encrypted_expiry_date = EmptyText
    THEN tx
    ELSE [tx EXCEPT !.prefs = GetOrCreatePrefs(tx.prefs, row.user),
                    !.notifications = CreateExpiryAlert(tx.notifications,
                                          SignalExpiryKwargs, row.user, id, now)]

\* ------------------------------------------------------------------------
\* Document upload (vault/serializers.py, vault/views.py)
\* ------------------------------------------------------------------------
\* PrimaryKeyRelatedField of the folder: the id, when given, must exist.
FolderFieldValid(folder) == folder = None \/ folder \in DOMAIN folders

\* A validate that compares categories and not owners.
DocumentValidateAnyOwner(u, cat, folder) ==
    folder # None => (cat # NoCategory => folders[folder].category = cat)

\* DocumentSerializer.validate: the folder belongs to the caller and, when
\* the request carries a category, the folder has that category.
DocumentValidate(u, cat, folder) ==
    folder # None =>
        /\ folders[folder].user = u
        /\ (cat # NoCategory => folders[folder].category = cat)

\* The message under the key folder of a 400: the related field's "object
\* does not exist" for an id that names no folder, else the first message
\* DocumentSerializer.validate raises.
FolderError(u, cat, folder) ==
    CASE folder \notin DOMAIN folders -> "folder: does not exist"
      [] folders[folder].user # u -> "folder: must belong to you"
      [] OTHER -> "folder: same category"

\* The quota test of DocumentSerializer.create.
QuotaExceededAtLimit(user, file_size) ==
    user.storage_used + file_size >= StorageLimit(user.subscription_tier)

QuotaExceeded(user, file_size) ==
    user.storage_used + file_size > StorageLimit(user.subscription_tier)

\* A create() that forgets the storage counter.
StorageNotIncremented(used, file_size) == used

\* user.storage_used += file_size
StorageAfterUpload(used, file_size) == used + file_size

\* A block without transaction: the writes made before the exception stay.
RollbackOmitted(snapshot, current) == current

\* transaction.atomic(): an exception leaving the block restores the tables
\* as they were when the block was entered.
AtomicRollback(snapshot, current) == snapshot

\* The tables a transaction of the upload may write.
Tables == [documents |-> documents, versions |-> versions, users |-> users,
           prefs |-> prefs, notifications |-> notifications]

\* POST /documents/ by u; failAt = 0 when no write fails, k when the k-th
\* of the three writes of the atomic block raises.
Upload(u, file_size, cat, folder, has_expiry, expiry, failAt) ==
    /\ Cardinality(DOMAIN documents) < MaxDocuments
    /\ LET id == NewId(DOMAIN documents, DocIds)
           row == [user |-> u, category |-> cat, folder |-> folder,
                   file_size |-> file_size, has_expiry |-> has_expiry,
                   encrypted_expiry_date |-> expiry,
                   is_deleted |-> FALSE, deleted_at |-> None]
           w0 == Tables
           w1 == PostSaveDocumentCreated(
                     [w0 EXCEPT !.documents = Put(documents, id, row)], id, row)
           w2 == [w1 EXCEPT !.versions = @ \cup
                     {[document |-> id, version_number |-> 1, file_size |-> file_size]}]
           w3 == [w2 EXCEPT !.users[u].storage_used =
                     StorageAfterUpload(users[u].storage_used, file_size)]
           detail == CASE ~FolderFieldValid(folder) -> FolderError(u, cat, folder)
                        [] ~DocumentValidate(u, cat, folder) -> FolderError(u, cat, folder)
                        [] QuotaExceeded(users[u], file_size) -> "file"
                        [] failAt # 0 -> "error"
                        [] OTHER -> "ok"
           rejected == detail \notin {"error", "ok"}
           final == CASE rejected -> w0
                      [] failAt = 0 -> w3
                      [] failAt = 1 -> AtomicRollback(w0, w0)
                      [] failAt = 2 -> AtomicRollback(w0, w1)
                      [] OTHER -> AtomicRollback(w0, w2)
           created == ~rejected /\ failAt = 0
       IN  /\ documents' = final.documents
           /\ versions' = final.versions
           /\ users' = final.users
           /\ prefs' = final.prefs
           /\ notifications' = final.notifications
           /\ resp' = Response("upload", u, IF created THEN id ELSE None,
                               IF created THEN 201 ELSE 400, detail, file_size, 0)
    /\ UNCHANGED <<inflight, folders, now, devices, issued>>

\* ------------------------------------------------------------------------
\* Document soft delete (vault/views.py)
\* ------------------------------------------------------------------------
\* The caller's documents, deleted or not.
VisibleIncludingDeleted(u) == {d \in DOMAIN documents : documents[d].user = u}

\* DocumentViewSet.get_queryset: the caller's non-deleted documents.
VisibleDocuments(u) ==
    {d \in DOMAIN documents : documents[d].user = u /\ ~documents[d].is_deleted}

\* A perform_destroy that forgets the storage counter.
StorageNotDecremented(used, file_size) == used

\* user.storage_used -= file_size
StorageAfterDelete(used, file_size) == used - file_size

\* instance.is_deleted = True; instance.deleted_at = timezone.now()
SoftDeleted(row, today) == [row EXCEPT !.is_deleted = TRUE, !.deleted_at = today]

\* DELETE /documents/{d}/ by u (destroy and perform_destroy).  The save of
\* the document leaves encrypted_expiry_date as it is, so the pre_save
\* handler deletes no notification.
DeleteDocument(u, d) ==
    /\ IF d \in VisibleDocuments(u)
       THEN /\ documents' = [documents EXCEPT ![d] = SoftDeleted(@, now)]
            /\ users' = [users EXCEPT ![documents[d].user].storage_used =
                            StorageAfterDelete(@, documents[d].file_size)]
            /\ resp' = Response("delete", u, d, 200, "ok", documents[d].file_size, 0)
       ELSE /\ UNCHANGED <<documents, users>>
            /\ resp' = Response("delete", u, d, 404, "error", 0, 0)
    /\ UNCHANGED <<inflight, versions, folders, notifications, prefs, now,
                   devices, issued>>

\* ------------------------------------------------------------------------
\* Specification of the document store: uploads and soft deletes
\* ------------------------------------------------------------------------
DocsNext ==
    \/ \E u \in Users, s \in SizeChoices, f \in {None, 1},
          e \in {EmptyText, 8}, failAt \in 0..3 :
          Upload(u, s, "identity", f, e # EmptyText, e, failAt)
    \/ \E u \in Users, d \in DocIds : DeleteDocument(u, d)

SpecDocs == Init /\ [][DocsNext]_vars

\* ------------------------------------------------------------------------
\* Specification of the quota: accounts of every subscription tier
\* ------------------------------------------------------------------------
\* subscription_tier values: the four choices of the column and one value
\* outside them (the column is set by the administration).
Tiers == {"FREE", "PREMIUM", "FAMILY", "LIFETIME", "TRIAL"}

\* File sizes that fill the accounts up to and beyond their limits, in MiB.
QuotaSizes == {400, 624, 1024, 10240, 25600, 102400}

\* The initial state with the two accounts on any tiers.
InitTiers ==
    /\ \E ta \in Tiers, tb \in Tiers :
           users = [u \in Users |->
                      IF u = "alice"
                      THEN [UserRow("alice@x", "+1000000001", "h1", TRUE, NullText,
                                    "local") EXCEPT !.subscription_tier = ta]
                      ELSE [UserRow("bob@x", "+1000000002", "h2", TRUE, NullText,
                                    "local") EXCEPT !.subscription_tier = tb]]
    /\ devices = EmptyTable
    /\ issued = 0
    /\ documents = EmptyTable
    /\ versions = {}
    /\ folders = EmptyTable
    /\ notifications = EmptyTable
    /\ prefs = EmptyTable
    /\ now = 1
    /\ inflight = EmptyTable
    /\ resp = Response("init", "alice", None, 0, "ok", 0, 0)

QuotaNext ==
    \/ \E u \in Users, s \in QuotaSizes :
           Upload(u, s, "identity", None, FALSE, EmptyText, 0)
    \/ \E u \in Users, d \in DocIds : DeleteDocument(u, d)

SpecQuota == InitTiers /\ [][QuotaNext]_vars

\* ------------------------------------------------------------------------
\* Folders (vault/serializers.py, vault/views.py, vault/models.py)
\* ------------------------------------------------------------------------
\* A request field that a partial update leaves out.
Omitted == -1

\* FolderViewSet.get_queryset: the caller's folders.
OwnFolders(u) == {f \in DOMAIN folders : folders[f].user = u}

\* A validate without the test against the folder's own id.
FolderValidateNoSelfCheck(u, cat, parent, instance) ==
    (parent # Omitted /\ parent # None) =>
        /\ folders[parent].user = u
        /\ (cat # NoCategory => folders[parent].category = cat)

\* FolderSerializer.validate, for the request fields cat and parent
\* (NoCategory / Omitted when the field is absent) and the folder being
\* updated (None on create).
FolderValidate(u, cat, parent, instance) ==
    (parent # Omitted /\ parent # None) =>
        /\ folders[parent].user = u
        /\ (cat # NoCategory => folders[parent].category = cat)
        /\ (instance # None => parent # instance)

\* PrimaryKeyRelatedField of the parent: the id, when given, must exist.
ParentFieldValid(parent) == parent \in {Omitted, None} \/ parent \in DOMAIN folders

\* The message under the key parent of a 400: the related field's "object
\* does not exist" for an id that names no folder, else the first message
\* FolderSerializer.validate raises.
ParentError(u, cat, parent, instance) ==
    CASE parent \notin DOMAIN folders -> "parent: does not exist"
      [] folders[parent].user # u -> "parent: must belong to you"
      [] cat # NoCategory /\ folders[parent].category # cat -> "parent: same category"
      [] OTHER -> "parent: own parent"

\* POST /folders/ by u: category is required, parent optional.
FolderCreate(u, cat, parent) ==
    /\ Cardinality(DOMAIN folders) < MaxFolders
    /\ cat \in Categories
    /\ IF ParentFieldValid(parent) /\ FolderValidate(u, cat, parent, None)
       THEN LET id == NewId(DOMAIN folders, FolderIds)
            IN  /\ folders' = Put(folders, id,
                       [user |-> u, category |-> cat,
                        parent |-> IF parent = Omitted THEN None ELSE parent])
                /\ resp' = Response("folder_create", u, id, 201, "ok", 0, 0)
       ELSE /\ UNCHANGED folders
            /\ resp' = Response("folder_create", u, None, 400,
                                ParentError(u, cat, parent, None), 0, 0)
    /\ UNCHANGED <<inflight, users, documents, versions, notifications, prefs,
                   now, devices, issued>>

\* Folder.parent is on_delete=CASCADE: deleting the folders in S deletes
\* every folder whose parent is deleted, and so on.
RECURSIVE CascadeFolders(_, _)
CascadeFolders(fs, S) ==
    LET next == S \cup {g \in DOMAIN fs : fs[g].parent \in S}
    IN  IF next = S THEN S ELSE CascadeFolders(fs, next)

\* Folder.document_count of folder f in the table fs adds the counts of the
\* subfolders recursively: it comes back to a folder it has visited when a
\* folder at or below f is below itself, and then raises RecursionError.
DocumentCountLoops(fs, f) ==
    \E g \in CascadeFolders(fs, {f}) :
        g \in CascadeFolders(fs, {h \in DOMAIN fs : fs[h].parent = g})

\* A folder update request: the folder addressed and the fields carried.
FolderRequest(f, cat, parent) == [folder |-> f, category |-> cat, parent |-> parent]

\* PATCH /folders/{f}/ by u with the fields the request carries. The row is
\* saved before the response is serialized, document_count included.
FolderUpdate(u, f, cat, parent) ==
    /\ IF f \notin OwnFolders(u)
       THEN /\ UNCHANGED folders
            /\ resp' = Response("folder_update", u, FolderRequest(f, cat, parent),
                            404, "error", 0, 0)
       ELSE IF ParentFieldValid(parent) /\ FolderValidate(u, cat, parent, f)
       THEN /\ folders' = [folders EXCEPT
                   ![f].category = IF cat = NoCategory THEN @ ELSE cat,
                   ![f].parent = IF parent = Omitted THEN @ ELSE parent]
            /\ resp' = IF DocumentCountLoops(folders', f)
                       THEN Response("folder_update", u, FolderRequest(f, cat, parent),
                                     500, "error", 0, 0)
                       ELSE Response("folder_update", u, FolderRequest(f, cat, parent),
                                     200, "ok", 0, 0)
       ELSE /\ UNCHANGED folders
            /\ resp' = Response("folder_update", u, FolderRequest(f, cat, parent),
                            400, ParentError(u, cat, parent, f), 0, 0)
    /\ UNCHANGED <<inflight, users, documents, versions, notifications, prefs,
                   now, devices, issued>>

\* A Document.folder declared on_delete=CASCADE.
DocumentsCascaded(docs, removed) ==
    Remove(docs, {d \in DOMAIN docs : docs[d].folder \in removed})

\* Document.folder is on_delete=SET_NULL.
DocumentsAfterFolderDelete(docs, removed) ==
    [d \in DOMAIN docs |->
        IF docs[d].folder \in removed THEN [docs[d] EXCEPT !.folder = None]
        ELSE docs[d]]

\* DELETE /folders/{f}/ by u (perform_destroy: instance.delete()).  The
\* response records how many documents were detached and how many folder
\* rows the delete removed.
FolderDelete(u, f) ==
    /\ IF f \in OwnFolders(u)
       THEN LET removed == CascadeFolders(folders, {f})
                detached == {d \in DOMAIN documents : documents[d].folder \in removed}
            IN  /\ folders' = Remove(folders, removed)
                /\ documents' = DocumentsAfterFolderDelete(documents, removed)
                /\ resp' = Response("folder_delete", u, f, 204, "ok",
                                    Cardinality(detached), Cardinality(removed))
       ELSE /\ UNCHANGED <<folders, documents>>
            /\ resp' = Response("folder_delete", u, f, 404, "error", 0, 0)
    /\ UNCHANGED <<inflight, users, versions, notifications, prefs, now,
                   devices, issued>>

\* ------------------------------------------------------------------------
\* Specification of the folder tree with documents filed in it
\* ------------------------------------------------------------------------
FoldersNext ==
    \/ \E p \in {None} \cup FolderIds : FolderCreate("alice", "identity", p)
    \/ \E p \in FolderIds : FolderCreate("bob", "identity", p)
    \/ \E u \in Users, f \in FolderIds, p \in {Omitted, None} \cup FolderIds :
          FolderUpdate(u, f, NoCategory, p)
    \/ \E u \in Users, f \in FolderIds : FolderDelete(u, f)
    \/ \E f \in {None} \cup FolderIds :
          Upload("alice", 400, "identity", f, FALSE, EmptyText, 0)

SpecFolders == Init /\ [][FoldersNext]_vars

\* ------------------------------------------------------------------------
\* Specification of the folder tree alone: creates, updates of category
\* and parent in every combination, deletes
\* ------------------------------------------------------------------------
TreeNext ==
    \/ \E u \in Users, cat \in Categories, p \in {Omitted, None} \cup FolderIds :
          FolderCreate(u, cat, p)
    \/ \E u \in Users, f \in FolderIds, cat \in Categories \cup {NoCategory},
          p \in {Omitted, None} \cup FolderIds :
          FolderUpdate(u, f, cat, p)
    \/ \E f \in FolderIds : FolderDelete("alice", f)

SpecTree == Init /\ [][TreeNext]_vars

\* ------------------------------------------------------------------------
\* Document update and move (vault/serializers.py, vault/views.py)
\* ------------------------------------------------------------------------
\* A document update request: the document addressed and the fields
\* carried.
DocumentRequest(d, cat, folder) == [document |-> d, category |-> cat, folder |-> folder]

\* PATCH /documents/{d}/ by u with the fields the request carries (cat is
\* NoCategory and folder is Omitted when the field is absent).  The object
\* is looked up among the caller's documents that are not deleted;
\* DocumentSerializer.validate checks a folder that is given and not null.
\* The save changes neither has_expiry nor the expiry date, so the signal
\* handlers of Document write nothing.
DocumentUpdate(u, d, cat, folder) ==
    /\ IF d \notin VisibleDocuments(u)
       THEN /\ UNCHANGED documents
            /\ resp' = Response("document_update", u, DocumentRequest(d, cat, folder),
                            404, "error", 0, 0)
       ELSE IF \/ folder \in {Omitted, None}
               \/ (FolderFieldValid(folder) /\ DocumentValidate(u, cat, folder))
       THEN /\ documents' = [documents EXCEPT
                   ![d].category = IF cat = NoCategory THEN @ ELSE cat,
                   ![d].folder = IF folder = Omitted THEN @ ELSE folder]
            /\ resp' = Response("document_update", u, DocumentRequest(d, cat, folder),
                            200, "ok", 0, 0)
       ELSE /\ UNCHANGED documents
            /\ resp' = Response("document_update", u, DocumentRequest(d, cat, folder),
                            400, FolderError(u, cat, folder), 0, 0)
    /\ UNCHANGED <<inflight, users, versions, folders, notifications, prefs,
                   now, devices, issued>>

\* The body of a move request.
MoveRequest(document_ids, folder_id) ==
    [document_ids |-> document_ids, folder_id |-> folder_id]

\* A filter on id__in alone.
MoveMatchedAnyOwner(u, document_ids) == document_ids \cap DOMAIN documents

\* Document.objects.filter(id__in=document_ids, user=request.user,
\* is_deleted=False)
MoveMatched(u, document_ids) ==
    {d \in document_ids \cap DOMAIN documents :
        documents[d].user = u /\ ~documents[d].is_deleted}

\* POST /documents/move/ by u: 400 for an empty list, 404 when no listed
\* document is the caller's and not deleted, 404 when folder_id names no
\* folder of the caller; otherwise one UPDATE sets folder on the matched
\* documents and moved_count is their number.
Move(u, document_ids, folder_id) ==
    /\ LET matched == MoveMatched(u, document_ids)
           request == MoveRequest(document_ids, folder_id)
       IN  IF document_ids = {}
           THEN /\ UNCHANGED documents
                /\ resp' = Response("move", u, request, 400, "document_ids required", 0, 0)
           ELSE IF matched = {}
           THEN /\ UNCHANGED documents
                /\ resp' = Response("move", u, request, 404, "No documents found", 0, 0)
           ELSE IF folder_id # None /\ folder_id \notin OwnFolders(u)
           THEN /\ UNCHANGED documents
                /\ resp' = Response("move", u, request, 404, "Folder not found", 0, 0)
           ELSE /\ documents' = [d \in DOMAIN documents |->
                                   IF d \in matched
                                   THEN [documents[d] EXCEPT !.folder = folder_id]
                                   ELSE documents[d]]
                /\ resp' = Response("move", u, request, 200, "success", 0,
                                    Cardinality(matched))
    /\ UNCHANGED <<inflight, users, versions, folders, notifications, prefs,
                   now, devices, issued>>

\* ------------------------------------------------------------------------
\* Specification of the folder tree and the documents filed in it
\* ------------------------------------------------------------------------
OrganizeNext ==
    \/ \E cat \in Categories, p \in {None, 1} : FolderCreate("alice", cat, p)
    \/ FolderCreate("bob", "identity", None)
    \/ FolderUpdate("alice", 1, "vehicles", Omitted)
    \/ FolderUpdate("alice", 2, NoCategory, 1)
    \/ \E cat \in {"identity", NoCategory}, f \in {None, 1} :
          Upload("alice", 400, cat, f, FALSE, EmptyText, 0)
    \/ Upload("bob", 400, "identity", None, FALSE, EmptyText, 0)
    \/ \E d \in DocIds : DocumentUpdate("alice", d, "vehicles", Omitted)
    \/ \E d \in DocIds, f \in {1, 2} : DocumentUpdate("alice", d, NoCategory, f)
    \/ \E ids \in SUBSET DocIds, f \in {None} \cup FolderIds : Move("alice", ids, f)
    \/ \E d \in DocIds : DeleteDocument("alice", d)

SpecOrganize == Init /\ [][OrganizeNext]_vars

\* ------------------------------------------------------------------------
\* Notification preferences (notifications/serializers.py, views.py)
\* ------------------------------------------------------------------------
\* Thresholds the clients of the model send.
ThresholdChoices == {40, 60, 90, 96}

ThresholdFields == {"storage_warning_threshold", "storage_critical_threshold"}

\* Request bodies that carry any subset of the two thresholds.
ThresholdPayloads == UNION {[S -> ThresholdChoices] : S \in SUBSET ThresholdFields}

\* dict.get(key, default)
DictGet(data, key, default) == IF key \in DOMAIN data THEN data[key] ELSE default

\* validate_storage_warning_threshold / validate_storage_critical_threshold
\* run for the thresholds the request carries.
ThresholdInRange(value) == 50 <= value /\ value <= 100

\* NotificationPreferenceSerializer.validate: the thresholds are read from
\* the request data, with the literals 80 and 95 for the ones it lacks.
PreferenceValidate(data) ==
    LET warning == DictGet(data, "storage_warning_threshold", 80)
        critical == DictGet(data, "storage_critical_threshold", 95)
    IN  ~(critical <= warning)

\* ModelSerializer.update: the fields of the request overwrite the row.
PreferenceSave(row, data) ==
    [f \in DOMAIN row |-> IF f \in DOMAIN data THEN data[f] ELSE row[f]]

\* GET /notifications/preferences/ by u.
PrefGet(u) ==
    /\ prefs' = GetOrCreatePrefs(prefs, u)
    /\ resp' = Response("pref_get", u, None, 200, "ok", 0, 0)
    /\ UNCHANGED <<inflight, users, documents, versions, folders, notifications,
                   now, devices, issued>>

\* PUT /notifications/preferences/ by u with body data (partial=True).
PrefPut(u, data) ==
    /\ LET existing == GetOrCreatePrefs(prefs, u)
           fieldsValid == \A f \in DOMAIN data \cap ThresholdFields :
                              ThresholdInRange(data[f])
       IN  IF fieldsValid /\ PreferenceValidate(data)
           THEN /\ prefs' = [existing EXCEPT ![u] = PreferenceSave(@, data)]
                /\ resp' = Response("pref_put", u, None, 200, "ok", 0, 0)
           ELSE /\ prefs' = existing
                /\ resp' = Response("pref_put", u, None, 400, "error", 0, 0)
    /\ UNCHANGED <<inflight, users, documents, versions, folders, notifications,
                   now, devices, issued>>

\* ------------------------------------------------------------------------
\* Specification of the preference endpoints
\* ------------------------------------------------------------------------
PrefsNext ==
    \/ \E u \in Users : PrefGet(u)
    \/ \E u \in Users, data \in ThresholdPayloads : PrefPut(u, data)

SpecPrefs == Init /\ [][PrefsNext]_vars

\* ------------------------------------------------------------------------
\* Clock
\* ------------------------------------------------------------------------
\* A day passes.
Tick ==
    /\ now < MaxDay
    /\ now' = now + 1
    /\ resp' = Response("tick", "scheduler", None, 0, "ok", 0, 0)
    /\ UNCHANGED <<inflight, users, documents, versions, folders,
                   notifications, prefs, devices, issued>>

\* ------------------------------------------------------------------------
\* Expiry scan (notifications/tasks.py check_document_expiry)
\* ------------------------------------------------------------------------
\* Keyword arguments of the call in check_document_expiry.
TaskExpiryKwargs == {"document", "user", "preferences", "days_until_expiry"}

\* vault.encryption.decrypt_text followed by strptime: the external
\* decryption collaborator yields the expiry day of a well-formed
\* ciphertext and fails on anything else.
Decryptable(cipher) == cipher \notin {EmptyText, BadCipher}

DecryptText(cipher) == cipher

\* Notification.objects.filter(user, document, notification_type,
\* created_at__date=today).exists()
ExistsToday(n, user, document, type, today) ==
    \E i \in DOMAIN n : /\ n[i].user = user
                        /\ n[i].document = document
                        /\ n[i].notification_type = type
                        /\ n[i].created_at = today

\* Notification.objects.filter(user, document, notification_type,
\* is_read=False).exists()
ExistsUnread(n, user, document, type) ==
    \E i \in DOMAIN n : /\ n[i].user = user
                        /\ n[i].document = document
                        /\ n[i].notification_type = type
                        /\ ~n[i].is_read

\* The chain without the preference switches and the fixed offsets.
ShouldNotifyUngated(n, p, user, document, days, today) ==
    CASE days < 0 -> ~ExistsUnread(n, user, document, "DOCUMENT_EXPIRED")
      [] OTHER -> ~ExistsToday(n, user, document, "DOCUMENT_EXPIRY", today)

\* The if/elif chain that sets should_notify.
ShouldNotify(n, p, user, document, days, today) ==
    CASE days < 0 -> ~ExistsUnread(n, user, document, "DOCUMENT_EXPIRED")
      [] days = 0 /\ p.alert_on_expiry ->
             ~ExistsToday(n, user, document, "DOCUMENT_EXPIRY", today)
      [] days = 1 /\ p.alert_1_day ->
             ~ExistsToday(n, user, document, "DOCUMENT_EXPIRY", today)
      [] days = 7 /\ p.alert_7_days ->
             ~ExistsToday(n, user, document, "DOCUMENT_EXPIRY", today)
      [] days = 15 /\ p.alert_15_days ->
             ~ExistsToday(n, user, document, "DOCUMENT_EXPIRY", today)
      [] days = 30 /\ p.alert_30_days ->
             ~ExistsToday(n, user, document, "DOCUMENT_EXPIRY", today)
      [] OTHER -> FALSE

\* The body of the loop for one document; an exception raised inside it
\* is caught and the loop continues with the next document. called holds
\* the documents for which create_expiry_alert was called: each of them
\* is either counted in created or named in a "Failed to process" log line.
ScanDocument(st, id, today) ==
    LET row == documents[id]
        p1 == GetOrCreatePrefs(st.prefs, row.user)
        st1 == [st EXCEPT !.prefs = p1]
        days == DecryptText(row.encrypted_expiry_date) - today
    IN  IF ~Decryptable(row.encrypted_expiry_date) THEN st1
        ELSE IF ~ShouldNotify(st1.notifications, p1[row.user], row.user, id,
                              days, today) THEN st1
        ELSE LET n2 == CreateExpiryAlert(st1.notifications, TaskExpiryKwargs,
                                         row.user, id, today)
             IN  [st1 EXCEPT !.notifications = n2,
                             !.called = @ \cup {id},
                             !.created = IF n2 = st1.notifications
                                         THEN @ ELSE @ + 1]

RECURSIVE ScanDocuments(_, _, _)
ScanDocuments(ids, st, today) ==
    IF ids = {} THEN st
    ELSE LET id == CHOOSE i \in ids : \A j \in ids : i <= j
         IN  ScanDocuments(ids \ {id}, ScanDocument(st, id, today), today)

\* Document.objects.filter(has_expiry=True, encrypted_expiry_date__isnull=False);
\* the column is never NULL.
DocumentsWithExpiry == {d \in DOMAIN documents : documents[d].has_expiry}

\* One run of check_document_expiry.
CheckDocumentExpiry ==
    /\ LET st == ScanDocuments(DocumentsWithExpiry,
                               [prefs |-> prefs, notifications |-> notifications,
                                called |-> {}, created |-> 0], now)
       IN  /\ prefs' = st.prefs
           /\ notifications' = st.notifications
           /\ resp' = Response("check_document_expiry", "scheduler", st.called,
                               0, "ok", 0, st.created)
    /\ UNCHANGED <<inflight, users, documents, versions, folders, now, devices, issued>>

\* ------------------------------------------------------------------------
\* Specification of the expiry scan
\* ------------------------------------------------------------------------
AlertPayloads == {[alert_7_days |-> b] : b \in BOOLEAN}

ExpiryNext ==
    \/ \E u \in Users, h \in BOOLEAN, e \in ExpiryChoices \ {EmptyText} :
           Upload(u, 400, "identity", None, h, e, 0)
    \/ \E u \in Users, d \in DocIds : DeleteDocument(u, d)
    \/ \E u \in Users, data \in AlertPayloads : PrefPut(u, data)
    \/ Tick
    \/ CheckDocumentExpiry

SpecExpiry == Init /\ [][ExpiryNext]_vars

\* ------------------------------------------------------------------------
\* Notifications (notifications/models.py, serializers.py, views.py, admin.py)
\* ------------------------------------------------------------------------
\* NotificationViewSet.get_queryset: the caller's notifications.
OwnNotifications(n, u) == {i \in DOMAIN n : n[i].user = u}

\* Notification.mark_as_read
MarkAsRead(row, today) ==
    IF ~row.is_read THEN [row EXCEPT !.is_read = TRUE, !.read_at = today] ELSE row

\* An update that clears is_read and keeps read_at.
UnreadKeepingReadAt(row) == [row EXCEPT !.is_read = FALSE]

\* is_read = False, read_at = None (partial_update and the admin action).
MarkAsUnread(row) == [row EXCEPT !.is_read = FALSE, !.read_at = None]

\* A mark_email_sent that does not store the flag.
EmailFlagLeft(row) == row

\* Notification.mark_email_sent
MarkEmailSent(row) == IF ~row.email_sent THEN [row EXCEPT !.email_sent = TRUE] ELSE row

\* Notification.mark_push_sent
MarkPushSent(row) == IF ~row.push_sent THEN [row EXCEPT !.push_sent = TRUE] ELSE row

\* queryset.update(is_read=True, read_at=timezone.now()) on the rows ids.
UpdateRead(n, ids, today) ==
    [i \in DOMAIN n |->
        IF i \in ids THEN [n[i] EXCEPT !.is_read = TRUE, !.read_at = today] ELSE n[i]]

\* queryset.update(is_read=False, read_at=None) on the rows ids.
UpdateUnread(n, ids) ==
    [i \in DOMAIN n |-> IF i \in ids THEN MarkAsUnread(n[i]) ELSE n[i]]

\* NotificationCreateSerializer.create for user u: the system's creation
\* path; the document is attached only when it is u's.
CreateNotification(u, type, document) ==
    /\ Cardinality(DOMAIN notifications) < MaxNotifications
    /\ LET id == NewId(DOMAIN notifications, NotifIds)
           doc == IF document \in DOMAIN documents /\ documents[document].user = u
                  THEN document ELSE None
       IN  /\ notifications' = Put(notifications, id, NewNotification(u, type, doc, now))
           /\ resp' = Response("create_notification", u, id, 201, "ok", 0, 0)
    /\ UNCHANGED <<inflight, users, documents, versions, folders, prefs, now,
                   devices, issued>>

\* Request bodies of PATCH /notifications/{id}/.
PatchPayloads == {[x \in {} |-> TRUE], [is_read |-> TRUE], [is_read |-> FALSE]}

\* PATCH /notifications/{id}/ by u. get_object raises Http404 for a row
\* outside the caller's queryset; the handler's generic except clause answers
\* 500.
PartialUpdate(u, id, data) ==
    /\ IF id \notin OwnNotifications(notifications, u)
       THEN /\ notifications' = notifications
            /\ resp' = Response("partial_update", u, id, 500, "error", 0, 0)
       ELSE LET row == notifications[id]
                row2 == IF "is_read" \notin DOMAIN data THEN row
                        ELSE IF data.is_read /\ ~row.is_read THEN MarkAsRead(row, now)
                        ELSE IF ~data.is_read /\ row.is_read THEN MarkAsUnread(row)
                        ELSE row
            IN  /\ notifications' = [notifications EXCEPT ![id] = row2]
                /\ resp' = Response("partial_update", u, id, 200,
                                    IF "is_read" \notin DOMAIN data THEN "none"
                                    ELSE IF data.is_read THEN "read" ELSE "unread",
                                    0, 0)
    /\ UNCHANGED <<inflight, users, documents, versions, folders, prefs, now,
                   devices, issued>>

\* Request bodies of PUT /notifications/{id}/: with or without the required
\* fields (notification_type, encrypted_title, encrypted_body), each with a
\* value for the writable is_read.
PutPayloads == [required : BOOLEAN, is_read : BOOLEAN]

\* serializers.CharField yields a str for encrypted_title and encrypted_body.
CharFieldValue == "str"

\* A column that stores whatever it is given.
BinaryFieldAcceptsAny(value) == TRUE

\* The encrypted_title and encrypted_body columns are BinaryField: the
\* database adapter takes bytes and raises TypeError for a str.
BinaryFieldAccepts(value) == value = "bytes"

\* PUT /notifications/{id}/ by u: the update inherited from ModelViewSet
\* with NotificationSerializer. is_read is writable, read_at is read-only.
PutUpdate(u, id, data) ==
    /\ IF id \notin OwnNotifications(notifications, u)
       THEN /\ notifications' = notifications
            /\ resp' = Response("update", u, id, 404, "error", 0, 0)
       ELSE IF ~data.required
       THEN /\ notifications' = notifications
            /\ resp' = Response("update", u, id, 400, "error", 0, 0)
       ELSE IF ~BinaryFieldAccepts(CharFieldValue)
       THEN /\ notifications' = notifications
            /\ resp' = Response("update", u, id, 500, "error", 0, 0)
       ELSE /\ notifications' = [notifications EXCEPT ![id].is_read = data.is_read]
            /\ resp' = Response("update", u, id, 200, "ok", 0, 0)
    /\ UNCHANGED <<inflight, users, documents, versions, folders, prefs, now,
                   devices, issued>>

\* DELETE /notifications/{id}/ by u.
DestroyNotification(u, id) ==
    /\ IF id \notin OwnNotifications(notifications, u)
       THEN /\ notifications' = notifications
            /\ resp' = Response("destroy", u, id, 500, "error", 0, 0)
       ELSE /\ notifications' = Remove(notifications, {id})
            /\ resp' = Response("destroy", u, id, 204, "ok", 0, 0)
    /\ UNCHANGED <<inflight, users, documents, versions, folders, prefs, now,
                   devices, issued>>

\* NotificationMarkReadSerializer: the list must not be empty and
\* validate_notification_ids accepts it when every id is a notification of
\* the caller.
MarkReadValid(n, u, ids) == ids # {} /\ ids \subseteq OwnNotifications(n, u)

\* A filter without is_read=False.
MarkReadRowsAll(n, u, ids) == ids \cap OwnNotifications(n, u)

\* NotificationMarkReadSerializer.mark_as_read: filter(id__in, user,
\* is_read=False).
MarkReadRows(n, u, ids) == {i \in ids \cap OwnNotifications(n, u) : ~n[i].is_read}

\* POST /notifications/mark_read/ by u with notification_ids = ids.
MarkRead(u, ids) ==
    /\ IF ~MarkReadValid(notifications, u, ids)
       THEN /\ notifications' = notifications
            /\ resp' = Response("mark_read", u, ids, 400, "error", 0, 0)
       ELSE LET rows == MarkReadRows(notifications, u, ids)
            IN  /\ notifications' = UpdateRead(notifications, rows, now)
                /\ resp' = Response("mark_read", u, ids, 200, "ok", 0, Cardinality(rows))
    /\ UNCHANGED <<inflight, users, documents, versions, folders, prefs, now,
                   devices, issued>>

\* POST /notifications/mark_all_read/ by u.
MarkAllRead(u) ==
    /\ LET rows == {i \in OwnNotifications(notifications, u) : ~notifications[i].is_read}
       IN  /\ notifications' = UpdateRead(notifications, rows, now)
           /\ resp' = Response("mark_all_read", u, None, 200, "ok", 0, Cardinality(rows))
    /\ UNCHANGED <<inflight, users, documents, versions, folders, prefs, now,
                   devices, issued>>

\* DELETE /notifications/delete_all_read/ by u.
DeleteAllRead(u) ==
    /\ LET rows == {i \in OwnNotifications(notifications, u) : notifications[i].is_read}
       IN  /\ notifications' = Remove(notifications, rows)
           /\ resp' = Response("delete_all_read", u, None, 200, "ok", 0, Cardinality(rows))
    /\ UNCHANGED <<inflight, users, documents, versions, folders, prefs, now,
                   devices, issued>>

\* NotificationAdmin.mark_as_read on the selected rows.
AdminMarkAsRead(selected) ==
    /\ selected # {} /\ selected \subseteq DOMAIN notifications
    /\ LET rows == {i \in selected : ~notifications[i].is_read}
       IN  /\ notifications' = UpdateRead(notifications, rows, now)
           /\ resp' = Response("admin_mark_as_read", "admin", selected, 200, "ok", 0,
                               Cardinality(rows))
    /\ UNCHANGED <<inflight, users, documents, versions, folders, prefs, now,
                   devices, issued>>

\* NotificationAdmin.mark_as_unread on the selected rows.
AdminMarkAsUnread(selected) ==
    /\ selected # {} /\ selected \subseteq DOMAIN notifications
    /\ LET rows == {i \in selected : notifications[i].is_read}
       IN  /\ notifications' = UpdateUnread(notifications, rows)
           /\ resp' = Response("admin_mark_as_unread", "admin", selected, 200, "ok", 0,
                               Cardinality(rows))
    /\ UNCHANGED <<inflight, users, documents, versions, folders, prefs, now,
                   devices, issued>>

\* get_or_create_for_user for each of the users us.
GetOrCreatePrefsAll(p, us) ==
    [u \in DOMAIN p \cup us |-> IF u \in DOMAIN p THEN p[u] ELSE DefaultPrefs]

\* should_email of send_email_notifications.
ShouldEmail(p, type) ==
    /\ p.email_enabled
    /\ CASE type \in {"DOCUMENT_EXPIRY", "DOCUMENT_EXPIRED"} -> p.email_expiry_alerts
         [] type \in {"STORAGE_WARNING", "STORAGE_CRITICAL"} -> p.email_storage_alerts
         [] type \in {"SECURITY_ALERT", "NEW_DEVICE_LOGIN"} -> p.email_security_alerts
         [] OTHER -> TRUE

\* should_push of send_push_notifications.
ShouldPush(p, type) ==
    /\ p.push_enabled
    /\ CASE type \in {"DOCUMENT_EXPIRY", "DOCUMENT_EXPIRED"} -> p.push_expiry_alerts
         [] type \in {"STORAGE_WARNING", "STORAGE_CRITICAL"} -> p.push_storage_alerts
         [] type \in {"SECURITY_ALERT", "NEW_DEVICE_LOGIN"} -> p.push_security_alerts
         [] OTHER -> TRUE

\* One run of send_email_notifications.
SendEmailNotifications ==
    /\ LET pending == {i \in DOMAIN notifications :
                          ~notifications[i].email_sent /\ ~notifications[i].is_read}
           p1 == GetOrCreatePrefsAll(prefs, {notifications[i].user : i \in pending})
           sent == {i \in pending : ShouldEmail(p1[notifications[i].user],
                                                notifications[i].notification_type)}
       IN  /\ prefs' = p1
           /\ notifications' = [i \in DOMAIN notifications |->
                                   IF i \in sent THEN MarkEmailSent(notifications[i])
                                   ELSE notifications[i]]
           /\ resp' = Response("send_email_notifications", "scheduler", None, 0, "ok",
                               0, Cardinality(sent))
    /\ UNCHANGED <<inflight, users, documents, versions, folders, now, devices, issued>>

\* created_at__gte = now - 24 hours
PUSH_WINDOW_DAYS == 1

\* One run of send_push_notifications.
SendPushNotifications ==
    /\ LET pending == {i \in DOMAIN notifications :
                          /\ ~notifications[i].push_sent
                          /\ ~notifications[i].is_read
                          /\ notifications[i].created_at >= now - PUSH_WINDOW_DAYS}
           p1 == GetOrCreatePrefsAll(prefs, {notifications[i].user : i \in pending})
           sent == {i \in pending : ShouldPush(p1[notifications[i].user],
                                               notifications[i].notification_type)}
       IN  /\ prefs' = p1
           /\ notifications' = [i \in DOMAIN notifications |->
                                   IF i \in sent THEN MarkPushSent(notifications[i])
                                   ELSE notifications[i]]
           /\ resp' = Response("send_push_notifications", "scheduler", None, 0, "ok",
                               0, Cardinality(sent))
    /\ UNCHANGED <<inflight, users, documents, versions, folders, now, devices, issued>>

\* ------------------------------------------------------------------------
\* Specification of the notification endpoints and admin actions
\* ------------------------------------------------------------------------
NotifNext ==
    \/ CreateNotification("alice", "DOCUMENT_EXPIRY", None)
    \/ CreateNotification("bob", "SECURITY_ALERT", None)
    \/ \E id \in NotifIds, b \in BOOLEAN : PartialUpdate("alice", id, [is_read |-> b])
    \/ \E id \in NotifIds, b \in BOOLEAN :
           PutUpdate("alice", id, [required |-> TRUE, is_read |-> b])
    \/ PutUpdate("alice", 1, [required |-> FALSE, is_read |-> TRUE])
    \/ \E id \in NotifIds : DestroyNotification("alice", id)
    \/ \E ids \in SUBSET NotifIds : MarkRead("alice", ids)
    \/ \E u \in Users : MarkAllRead(u)
    \/ DeleteAllRead("alice")
    \/ \E id \in NotifIds : AdminMarkAsRead({id})
    \/ \E selected \in SUBSET NotifIds : AdminMarkAsUnread(selected)
    \/ Tick

SpecNotif == Init /\ [][NotifNext]_vars

\* ------------------------------------------------------------------------
\* Specification of the delivery jobs among the requests that touch
\* notifications
\* ------------------------------------------------------------------------
ChannelPayloads == {[email_enabled |-> b, push_enabled |-> b] : b \in BOOLEAN}

SendNext ==
    \/ CreateNotification("alice", "DOCUMENT_EXPIRY", None)
    \/ CreateNotification("bob", "SECURITY_ALERT", None)
    \/ \E id \in NotifIds, b \in BOOLEAN : PartialUpdate("alice", id, [is_read |-> b])
    \/ \E id \in NotifIds : PutUpdate("alice", id, [required |-> TRUE, is_read |-> FALSE])
    \/ \E id \in NotifIds : DestroyNotification("alice", id)
    \/ MarkAllRead("bob")
    \/ \E data \in ChannelPayloads : PrefPut("alice", data)
    \/ SendEmailNotifications
    \/ SendPushNotifications
    \/ Tick

SpecSend == Init /\ [][SendNext]_vars

\* ------------------------------------------------------------------------
\* Specification of the expiry scan over every offset and every switch
\* ------------------------------------------------------------------------
\* Expiry days of the uploads: with the clock they give the days until
\* expiry -1, 0, 1, 7, 15 and 30 and days between them.
OffsetChoices == {2, 8, 17, 31}

AlertFlags == {"alert_on_expiry", "alert_1_day", "alert_7_days",
               "alert_15_days", "alert_30_days"}

\* Request bodies that switch one alert off, and one that switches all on.
FlagPayloads ==
    {[f \in {g} |-> FALSE] : g \in AlertFlags} \cup {[f \in AlertFlags |-> TRUE]}

GatingNext ==
    \/ \E e \in OffsetChoices : Upload("alice", 400, "identity", None, TRUE, e, 0)
    \/ \E data \in FlagPayloads : PrefPut("alice", data)
    \/ \E d \in DocIds :
           notifications = EmptyTable /\ CreateNotification("alice", "DOCUMENT_EXPIRED", d)
    \/ MarkAllRead("alice")
    \/ Tick
    \/ CheckDocumentExpiry

SpecGating == Init /\ [][GatingNext]_vars

\* ------------------------------------------------------------------------
\* Storage alerts (notifications/utils.py)
\* ------------------------------------------------------------------------
\* File sizes of the uploads that bring a FREE account near its limit, in MiB.
StorageSizes == {850, 130}

\* Texts are sequences of words: the title create_storage_alert stores.
STORAGE_TITLE == <<"Storage", "Warning">>

\* str() of a bytes object: the literal with its b prefix and quotes.
StrOfBytes(word) == "b'" \o word \o "'"

\* Renderings of the lookup value b'Storage' that reach the LIKE pattern:
\* prep_for_like_query applies str() to the value, which is the bytes
\* object itself or the buffer the database adapter wraps it in.
LikeRenderings(word) == {StrOfBytes(word), "<memory>"}

\* column LIKE %pattern%: some word of the stored text is the pattern.
Contains(text, pattern) == \E i \in DOMAIN text : text[i] = pattern

\* calculate_storage_percentage, in whole percent (the comparisons are with
\* integer thresholds and the alert body uses int()).
CalculateStoragePercentage(row) ==
    LET user_limit == StorageLimit(row.subscription_tier)
        percentage == (row.storage_used * 100) \div user_limit
    IN  IF percentage < 100 THEN percentage ELSE 100

\* NotificationCreator.create_storage_alert: a SYSTEM notification titled
\* "Storage Warning", whatever the threshold that was crossed.
StorageAlertRow(user, today) ==
    NewNotification(user, "SYSTEM", None, today)
        @@ [encrypted_title |-> STORAGE_TITLE]

\* The recent_alert query of check_storage_alerts for the window of days.
RecentAlert(n, user, pattern, today, days) ==
    \E id \in DOMAIN n :
        /\ n[id].user = user
        /\ n[id].notification_type = "SYSTEM"
        /\ Contains(n[id].encrypted_title, pattern)
        /\ n[id].created_at >= today - days

\* Days of the window check_storage_alerts looks back for a usage of pct
\* percent, None when no threshold is reached.
AlertWindow(pct, warning_threshold, critical_threshold) ==
    IF pct >= critical_threshold THEN 1
    ELSE IF pct >= warning_threshold THEN 7
    ELSE None

\* check_storage_alerts(user) on a database whose adapter renders the
\* lookup value as rendering.
CheckStorageAlerts(u, rendering) ==
    /\ u \in DOMAIN users
    /\ LET hasPrefs == u \in DOMAIN prefs
           storage_pct == CalculateStoragePercentage(users[u])
           warning_threshold ==
               IF hasPrefs THEN prefs[u].storage_warning_threshold ELSE 80
           critical_threshold ==
               IF hasPrefs THEN prefs[u].storage_critical_threshold ELSE 95
           window == AlertWindow(storage_pct, warning_threshold, critical_threshold)
           create == /\ ~(hasPrefs /\ ~prefs[u].in_app_enabled)
                     /\ window # None
                     /\ ~RecentAlert(notifications, u, rendering, now, window)
       IN  IF create
           THEN /\ Cardinality(DOMAIN notifications) < MaxNotifications
                /\ notifications' = Put(notifications,
                                        NewId(DOMAIN notifications, NotifIds),
                                        StorageAlertRow(u, now))
                /\ resp' = Response("check_storage_alerts", u, None, 0, "ok",
                                    storage_pct, 1)
           ELSE /\ notifications' = notifications
                /\ resp' = Response("check_storage_alerts", u, None, 0, "ok",
                                    storage_pct, 0)
    /\ UNCHANGED <<inflight, users, devices, issued, documents, versions,
                   folders, prefs, now>>

\* ------------------------------------------------------------------------
\* Specification of the storage checks among uploads and preference updates
\* ------------------------------------------------------------------------
StoragePayloads ==
    {[in_app_enabled |-> b] : b \in BOOLEAN}
        \cup {[storage_warning_threshold |-> 60, storage_critical_threshold |-> 90]}

StorageNext ==
    \/ \E s \in StorageSizes : Upload("alice", s, "identity", None, FALSE, EmptyText, 0)
    \/ \E d \in DocIds : DeleteDocument("alice", d)
    \/ \E data \in StoragePayloads : PrefPut("alice", data)
    \/ \E u \in Users, rendering \in LikeRenderings("Storage") :
           CheckStorageAlerts(u, rendering)
    \/ Tick

SpecStorage == Init /\ [][StorageNext]_vars

\* ------------------------------------------------------------------------
\* Overlapping runs of the notification jobs (tasks.py, utils.py)
\* ------------------------------------------------------------------------
\* The jobs are plain functions without a lock or a transaction: a run is
\* a sequence of queries, and the queries of two runs may interleave. A
\* run in progress is a row of inflight.
Runs == 1..MaxRuns

\* The least element of a non-empty set of ids (the order of the query).
First(ids) == CHOOSE i \in ids : \A j \in ids : i <= j

\* A run of check_document_expiry starts: the documents query.
ScanBegin(r) ==
    /\ r \notin DOMAIN inflight
    /\ inflight' = Put(inflight, r, [job |-> "expiry", todo |-> DocumentsWithExpiry,
                                     doc |-> None, created |-> 0])
    /\ resp' = Response("scan_begin", "scheduler", r, 0, "ok", 0, 0)
    /\ UNCHANGED <<users, devices, issued, documents, versions, folders,
                   notifications, prefs, now>>

\* The run takes its next document and evaluates should_notify, the
\* existence query included; it stays at the document when the answer is
\* True and moves on otherwise.
ScanCheck(r) ==
    /\ r \in DOMAIN inflight
    /\ inflight[r].job = "expiry"
    /\ inflight[r].doc = None
    /\ inflight[r].todo # {}
    /\ LET id == First(inflight[r].todo)
           row == documents[id]
           p1 == GetOrCreatePrefs(prefs, row.user)
           days == DecryptText(row.encrypted_expiry_date) - now
           should == /\ Decryptable(row.encrypted_expiry_date)
                     /\ ShouldNotify(notifications, p1[row.user], row.user, id,
                                     days, now)
       IN  /\ prefs' = p1
           /\ inflight' = [inflight EXCEPT ![r].todo = @ \ {id},
                                           ![r].doc = IF should THEN id ELSE None]
           /\ resp' = Response("scan_check", "scheduler", r, 0,
                               IF should THEN "notify" ELSE "skip", 0, 0)
    /\ UNCHANGED <<users, devices, issued, documents, versions, folders,
                   notifications, now>>

\* The run calls create_expiry_alert for the document it stays at; the
\* exception the call may raise is caught by the loop.
ScanCreate(r) ==
    /\ r \in DOMAIN inflight
    /\ inflight[r].job = "expiry"
    /\ inflight[r].doc # None
    /\ LET id == inflight[r].doc
           n2 == CreateExpiryAlert(notifications, TaskExpiryKwargs,
                                   documents[id].user, id, now)
       IN  /\ notifications' = n2
           /\ inflight' = [inflight EXCEPT ![r].doc = None,
                                           ![r].created = IF n2 = notifications
                                                          THEN @ ELSE @ + 1]
           /\ resp' = Response("scan_create", "scheduler", r, 0, "ok", 0, 0)
    /\ UNCHANGED <<users, devices, issued, documents, versions, folders,
                   prefs, now>>

\* The run has no document left and returns notifications_created.
ScanEnd(r) ==
    /\ r \in DOMAIN inflight
    /\ inflight[r].job = "expiry"
    /\ inflight[r].doc = None
    /\ inflight[r].todo = {}
    /\ inflight' = Remove(inflight, {r})
    /\ resp' = Response("scan_end", "scheduler", r, 0, "ok", 0, inflight[r].created)
    /\ UNCHANGED <<users, devices, issued, documents, versions, folders,
                   notifications, prefs, now>>

\* A run of check_storage_alerts(u) reads the preferences and the usage
\* and performs the recent_alert query; it goes on to create when it found
\* a threshold reached and no recent alert, and returns otherwise.
StorageCheckBegin(r, u, rendering) ==
    /\ r \notin DOMAIN inflight
    /\ u \in DOMAIN users
    /\ LET hasPrefs == u \in DOMAIN prefs
           storage_pct == CalculateStoragePercentage(users[u])
           warning_threshold ==
               IF hasPrefs THEN prefs[u].storage_warning_threshold ELSE 80
           critical_threshold ==
               IF hasPrefs THEN prefs[u].storage_critical_threshold ELSE 95
           window == AlertWindow(storage_pct, warning_threshold, critical_threshold)
           create == /\ ~(hasPrefs /\ ~prefs[u].in_app_enabled)
                     /\ window # None
                     /\ ~RecentAlert(notifications, u, rendering, now, window)
       IN  /\ inflight' = IF create
                          THEN Put(inflight, r, [job |-> "storage", user |-> u,
                                                 rendering |-> rendering])
                          ELSE inflight
           /\ resp' = Response("storage_check", u, r, 0,
                               IF create THEN "notify" ELSE "skip", storage_pct, 0)
    /\ UNCHANGED <<users, devices, issued, documents, versions, folders,
                   notifications, prefs, now>>

\* The run calls create_storage_alert, which inserts without looking at
\* the table again, and returns.
StorageCheckCreate(r) ==
    /\ r \in DOMAIN inflight
    /\ inflight[r].job = "storage"
    /\ Cardinality(DOMAIN notifications) < MaxNotifications
    /\ notifications' = Put(notifications, NewId(DOMAIN notifications, NotifIds),
                            StorageAlertRow(inflight[r].user, now))
    /\ inflight' = Remove(inflight, {r})
    /\ resp' = Response("storage_create", inflight[r].user, r, 0, "ok", 0, 1)
    /\ UNCHANGED <<users, devices, issued, documents, versions, folders,
                   prefs, now>>

\* ------------------------------------------------------------------------
\* Specification of overlapping job runs
\* ------------------------------------------------------------------------
RaceNext ==
    \/ \E e \in {2, 8} : Upload("alice", 850, "identity", None, TRUE, e, 0)
    \/ PrefPut("alice", [alert_7_days |-> FALSE])
    \/ Tick
    \/ \E r \in Runs : ScanBegin(r)
    \/ \E r \in Runs : ScanCheck(r)
    \/ \E r \in Runs : ScanCreate(r)
    \/ \E r \in Runs : ScanEnd(r)
    \/ \E r \in Runs, rendering \in LikeRenderings("Storage") :
           StorageCheckBegin(r, "alice", rendering)
    \/ \E r \in Runs : StorageCheckCreate(r)

SpecRace == Init /\ [][RaceNext]_vars

\* ------------------------------------------------------------------------
\* Overlapping upload and delete requests (vault/serializers.py, views.py)
\* ------------------------------------------------------------------------
\* Each request loads its own copy of the User row, changes storage_used on
\* the copy and saves that value; the steps of two requests interleave.

\* POST /documents/ up to the quota test: authentication loads request.user
\* and create() compares the loaded storage_used with the limit.
UploadBegin(r, u, file_size) ==
    /\ r \notin DOMAIN inflight
    /\ IF QuotaExceeded(users[u], file_size)
       THEN /\ resp' = Response("upload_begin", u, r, 400, "file", file_size, 0)
            /\ UNCHANGED inflight
       ELSE /\ inflight' = Put(inflight, r,
                               [job |-> "upload", user |-> u, file_size |-> file_size,
                                storage_used |-> users[u].storage_used])
            /\ resp' = Response("upload_begin", u, r, 0, "loaded", file_size, 0)
    /\ UNCHANGED <<users, devices, issued, documents, versions, folders,
                   notifications, prefs, now>>

\* The atomic block of create(): Document, DocumentVersion 1, and the save
\* of storage_used computed from the copy loaded at the start.
UploadCommit(r) ==
    /\ r \in DOMAIN inflight
    /\ inflight[r].job = "upload"
    /\ Cardinality(DOMAIN documents) < MaxDocuments
    /\ LET run == inflight[r]
           id == NewId(DOMAIN documents, DocIds)
       IN  /\ documents' = Put(documents, id,
                               [user |-> run.user, category |-> "identity",
                                folder |-> None, file_size |-> run.file_size,
                                has_expiry |-> FALSE,
                                encrypted_expiry_date |-> EmptyText,
                                is_deleted |-> FALSE, deleted_at |-> None])
           /\ versions' = versions \cup
                  {[document |-> id, version_number |-> 1, file_size |-> run.file_size]}
           /\ users' = [users EXCEPT ![run.user].storage_used =
                           StorageAfterUpload(run.storage_used, run.file_size)]
           /\ resp' = Response("upload_commit", run.user, id, 201, "ok", run.file_size, 0)
    /\ inflight' = Remove(inflight, {r})
    /\ UNCHANGED <<devices, issued, folders, notifications, prefs, now>>

\* DELETE /documents/{d}/ up to the first write: get_object finds the
\* document among the caller's non-deleted ones and instance.user loads the
\* User row.
DeleteBegin(r, u, d) ==
    /\ r \notin DOMAIN inflight
    /\ IF d \in VisibleDocuments(u)
       THEN /\ inflight' = Put(inflight, r,
                               [job |-> "delete", user |-> documents[d].user,
                                document |-> d,
                                storage_used |-> users[documents[d].user].storage_used])
            /\ resp' = Response("delete_begin", u, d, 0, "loaded", 0, 0)
       ELSE /\ resp' = Response("delete_begin", u, d, 404, "error", 0, 0)
            /\ UNCHANGED inflight
    /\ UNCHANGED <<users, devices, issued, documents, versions, folders,
                   notifications, prefs, now>>

\* perform_destroy: the document is saved as deleted and storage_used is
\* saved from the loaded copy.
DeleteCommit(r) ==
    /\ r \in DOMAIN inflight
    /\ inflight[r].job = "delete"
    /\ LET run == inflight[r]
           file_size == documents[run.document].file_size
       IN  /\ documents' = [documents EXCEPT ![run.document] = SoftDeleted(@, now)]
           /\ users' = [users EXCEPT ![run.user].storage_used =
                           StorageAfterDelete(run.storage_used, file_size)]
           /\ resp' = Response("delete_commit", run.user, run.document, 200, "ok",
                               file_size, 0)
    /\ inflight' = Remove(inflight, {r})
    /\ UNCHANGED <<devices, issued, versions, folders, notifications, prefs, now>>

\* ------------------------------------------------------------------------
\* Specification of overlapping uploads and deletes of one user
\* ------------------------------------------------------------------------
OverlapNext ==
    \/ \E r \in Runs, s \in SizeChoices : UploadBegin(r, "alice", s)
    \/ \E r \in Runs : UploadCommit(r)
    \/ \E r \in Runs, d \in DocIds : DeleteBegin(r, "alice", d)
    \/ \E r \in Runs : DeleteCommit(r)

SpecOverlap == Init /\ [][OverlapNext]_vars

\* ------------------------------------------------------------------------
\* Read requests (vault/views.py, notifications/views.py)
\* ------------------------------------------------------------------------
\* A request that only reads leaves every table as it is.
ReadOnly ==
    UNCHANGED <<users, devices, issued, documents, versions, folders,
                notifications, prefs, now, inflight>>

\* GET /documents/ by u: get_queryset, the caller's documents that are not
\* deleted.
ListDocuments(u) ==
    /\ resp' = Response("list_documents", u, VisibleDocuments(u), 200, "ok", 0,
                        Cardinality(VisibleDocuments(u)))
    /\ ReadOnly

\* GET /folders/ by u: get_queryset, the caller's folders, each serialized
\* with its document_count.
ListFolders(u) ==
    /\ resp' = IF \E f \in OwnFolders(u) : DocumentCountLoops(folders, f)
               THEN Response("list_folders", u, {}, 500, "error", 0, 0)
               ELSE Response("list_folders", u, OwnFolders(u), 200, "ok", 0,
                             Cardinality(OwnFolders(u)))
    /\ ReadOnly

\* GET /notifications/ by u: get_queryset, the caller's notifications.
ListNotifications(u) ==
    /\ resp' = Response("list_notifications", u, OwnNotifications(notifications, u),
                        200, "ok", 0,
                        Cardinality(OwnNotifications(notifications, u)))
    /\ ReadOnly

\* GET /documents/{d}/ by u: 404 outside the caller's queryset.
RetrieveDocument(u, d) ==
    /\ resp' = IF d \in VisibleDocuments(u)
               THEN Response("retrieve_document", u, d, 200, "ok", 0, 1)
               ELSE Response("retrieve_document", u, d, 404, "error", 0, 0)
    /\ ReadOnly

\* GET /documents/{d}/download/ by u: get_object over get_queryset; every
\* document row has its file.
Download(u, d) ==
    /\ resp' = IF d \in VisibleDocuments(u)
               THEN Response("download", u, d, 200, "ok", documents[d].file_size, 1)
               ELSE Response("download", u, d, 404, "error", 0, 0)
    /\ ReadOnly

\* GET /documents/{d}/versions/ by u: the versions of a document of
\* get_queryset.
DocumentVersions(u, d) ==
    /\ resp' = IF d \in VisibleDocuments(u)
               THEN Response("versions", u, d, 200, "ok", 0,
                             Cardinality({v \in versions : v.document = d}))
               ELSE Response("versions", u, d, 404, "error", 0, 0)
    /\ ReadOnly

\* GET /notifications/{id}/ by u: get_object raises Http404 outside the
\* caller's queryset, which the handler's generic except clause answers 500.
RetrieveNotification(u, id) ==
    /\ resp' = IF id \in OwnNotifications(notifications, u)
               THEN Response("retrieve_notification", u, id, 200, "ok", 0, 1)
               ELSE Response("retrieve_notification", u, id, 500, "error", 0, 0)
    /\ ReadOnly

\* folder.subfolders.all(), followed recursively from f: f and the folders
\* below it, whoever owns them.
Subtree(f) == CascadeFolders(folders, {f})

\* _build_tree comes back to a folder it has visited: the recursion does
\* not end and the request fails.
TreeCyclic(f) == DocumentCountLoops(folders, f)

\* folder.documents.filter(is_deleted=False) at every node of the tree.
TreeDocuments(f) ==
    {d \in DOMAIN documents :
        documents[d].folder \in Subtree(f) /\ ~documents[d].is_deleted}

\* GET /folders/{f}/tree/ by u: 404 outside the caller's folders; otherwise
\* the folders below f with the documents in them.
FolderTree(u, f) ==
    /\ resp' = IF f \notin OwnFolders(u)
               THEN Response("folder_tree", u, f, 404, "error", 0, 0)
               ELSE IF TreeCyclic(f)
               THEN Response("folder_tree", u, f, 500, "error", 0, 0)
               ELSE Response("folder_tree", u, f, 200, "ok",
                             Cardinality(TreeDocuments(f)),
                             Cardinality(Subtree(f)))
    /\ ReadOnly

\* ------------------------------------------------------------------------
\* Change of a document's expiry date (notifications/signals.py)
\* ------------------------------------------------------------------------
\* The expiry notifications of document d, read or not.
ExpiryNotificationsAnyState(n, d) ==
    {i \in DOMAIN n : /\ n[i].document = d
                      /\ n[i].notification_type \in {"DOCUMENT_EXPIRY", "DOCUMENT_EXPIRED"}}

\* The queryset check_expiry_date_change deletes: the unread
\* DOCUMENT_EXPIRY and DOCUMENT_EXPIRED notifications of document d.
UnreadExpiryNotifications(n, d) ==
    {i \in DOMAIN n : /\ n[i].document = d
                      /\ n[i].notification_type \in {"DOCUMENT_EXPIRY", "DOCUMENT_EXPIRED"}
                      /\ ~n[i].is_read}

\* check_expiry_date_change (pre_save of a Document): for a row that is
\* in the table, the stored expiry date is compared with the one about to
\* be saved.
CheckExpiryDateChange(n, d, expiry) ==
    IF d \in DOMAIN documents /\ documents[d].encrypted_expiry_date # expiry
    THEN Remove(n, UnreadExpiryNotifications(n, d))
    ELSE n

\* A PATCH of the expiry date: the document addressed and the new value.
ExpiryRequest(d, expiry) == [document |-> d, encrypted_expiry_date |-> expiry]

\* PATCH /documents/{d}/ {encrypted_expiry_date} by u: ModelSerializer
\* update sets the field and saves the instance.
DocumentExpiryUpdate(u, d, expiry) ==
    /\ IF d \in VisibleDocuments(u)
       THEN /\ notifications' = CheckExpiryDateChange(notifications, d, expiry)
            /\ documents' = [documents EXCEPT ![d].encrypted_expiry_date = expiry]
            /\ resp' = Response("document_expiry_update", u, ExpiryRequest(d, expiry),
                                200, "ok", 0,
                                Cardinality(DOMAIN notifications)
                                    - Cardinality(DOMAIN notifications'))
       ELSE /\ UNCHANGED <<documents, notifications>>
            /\ resp' = Response("document_expiry_update", u, ExpiryRequest(d, expiry),
                                404, "error", 0, 0)
    /\ UNCHANGED <<inflight, users, devices, issued, versions, folders, prefs, now>>

\* ------------------------------------------------------------------------
\* Specification of expiry date changes among notifications of every kind
\* ------------------------------------------------------------------------
ExpiryChangeNext ==
    \/ \E e \in {3, 8} : Upload("alice", 400, "identity", None, TRUE, e, 0)
    \/ \E type \in {"DOCUMENT_EXPIRY", "DOCUMENT_EXPIRED", "SECURITY_ALERT"},
          d \in DocIds : CreateNotification("alice", type, d)
    \/ \E id \in NotifIds : PartialUpdate("alice", id, [is_read |-> TRUE])
    \/ \E d \in DocIds, e \in {3, 8} : DocumentExpiryUpdate("alice", d, e)
    \/ \E d \in DocIds : DeleteDocument("alice", d)

SpecExpiryChange == Init /\ [][ExpiryChangeNext]_vars

\* ------------------------------------------------------------------------
\* Specification of the requests that reach documents, deleted ones included
\* ------------------------------------------------------------------------
TrashNext ==
    \/ folders = EmptyTable /\ FolderCreate("alice", "identity", None)
    \/ \E s \in SizeChoices, f \in {None, 1} :
           Upload("alice", s, "identity", f, FALSE, EmptyText, 0)
    \/ \E d \in DocIds : DeleteDocument("alice", d)
    \/ ListDocuments("alice")
    \/ \E d \in DocIds : RetrieveDocument("alice", d)
    \/ \E d \in DocIds : Download("alice", d)
    \/ \E d \in DocIds : DocumentVersions("alice", d)
    \/ FolderTree("alice", 1)
    \/ \E ids \in SUBSET DocIds, f \in {None, 1} : Move("alice", ids, f)

SpecTrash == Init /\ [][TrashNext]_vars

\* ------------------------------------------------------------------------
\* Specification of two users working side by side: bob fills his vault,
\* alice sends every kind of request with every id
\* ------------------------------------------------------------------------
IsolationNext ==
    \/ OwnFolders("bob") = {} /\ FolderCreate("bob", "identity", None)
    \/ /\ \A d \in DOMAIN documents : documents[d].user # "bob"
       /\ Upload("bob", 400, "identity", None, FALSE, EmptyText, 0)
    \/ /\ OwnNotifications(notifications, "bob") = {}
       /\ CreateNotification("bob", "SECURITY_ALERT", None)
    \/ "bob" \notin DOMAIN prefs /\ PrefGet("bob")
    \/ /\ Cardinality(OwnFolders("alice")) < 2
       /\ \E p \in {None, 1} : FolderCreate("alice", "identity", p)
    \/ \E f \in {1, 2} : FolderUpdate("alice", f, NoCategory, 1)
    \/ \E f \in {1, 2} : FolderDelete("alice", f)
    \/ /\ \A d \in DOMAIN documents : documents[d].user # "alice"
       /\ \E f \in {None, 1} : Upload("alice", 400, "identity", f, FALSE, EmptyText, 0)
    \/ \E d \in DocIds : DocumentUpdate("alice", d, NoCategory, 1)
    \/ \E d \in DocIds : DeleteDocument("alice", d)
    \/ \E f \in {None, 1} : Move("alice", DocIds, f)
    \/ /\ OwnNotifications(notifications, "alice") = {}
       /\ CreateNotification("alice", "DOCUMENT_EXPIRY", None)
    \/ \E id \in NotifIds : PartialUpdate("alice", id, [is_read |-> TRUE])
    \/ \E id \in NotifIds : DestroyNotification("alice", id)
    \/ MarkRead("alice", NotifIds)
    \/ MarkAllRead("alice")
    \/ DeleteAllRead("alice")
    \/ PrefPut("alice", [email_enabled |-> FALSE])
    \/ ListDocuments("alice")
    \/ ListFolders("alice")
    \/ ListNotifications("alice")
    \/ \E d \in DocIds : RetrieveDocument("alice", d)
    \/ \E id \in NotifIds : RetrieveNotification("alice", id)
    \/ \E f \in {1, 2} : FolderTree("alice", f)

SpecIsolation == Init /\ [][IsolationNext]_vars

\* ------------------------------------------------------------------------
\* Accounts and devices (users/models.py, users/serializers.py,
\* users/views.py)
\* ------------------------------------------------------------------------
\* User.set_password: a 64-digit lowercase hex string is stored as it is,
\* any other string is stored as its SHA-256 digest.
SetPassword(raw_password) ==
    IF IsSha256Hex(raw_password) THEN raw_password ELSE Sha256(raw_password)

\* A comparison of the stored hash with the string as it was sent.
CheckPasswordDirect(row, raw_password) == row.password = raw_password

\* User.check_password: the same normalisation as set_password, then
\* equality with the stored hash.
CheckPassword(row, raw_password) ==
    row.password =
        (IF IsSha256Hex(raw_password) THEN raw_password ELSE Sha256(raw_password))

\* The users whose column col holds value.
UsersWith(u, col, value) == {name \in DOMAIN u : u[name][col] = value}

\* A Device row with this device_id exists (device_id is unique=True).
DeviceIdTaken(d, device_id) == \E i \in DOMAIN d : d[i].device_id = device_id

\* The Device rows of user with this device_id.
DevicesOf(d, user, device_id) ==
    {i \in DOMAIN d : d[i].user = user /\ d[i].device_id = device_id}

\* create_new_device_notification (post_save of a created Device): the
\* preferences row is fetched or created, and a SECURITY_ALERT notification
\* is created unless both security alert switches are off.
PostSaveDeviceCreated(st, user, today) ==
    LET p1 == GetOrCreatePrefs(st.prefs, user)
        st1 == [st EXCEPT !.prefs = p1]
    IN  IF ~p1[user].push_security_alerts /\ ~p1[user].email_security_alerts
        THEN st1
        ELSE [st1 EXCEPT !.notifications =
                 Put(@, NewId(DOMAIN @, NotifIds),
                     NewNotification(user, "SECURITY_ALERT", None, today))]

\* A Device row created without the trust flag.
UntrustedDevice(user, device_id) ==
    [user |-> user, device_id |-> device_id, is_trusted |-> FALSE]

\* The Device row that registration and Google login create.
TrustedDevice(user, device_id) ==
    [user |-> user, device_id |-> device_id, is_trusted |-> TRUE]

\* Device.objects.create(user=user, is_trusted=True, ...) followed by the
\* post_save signal; the caller has checked that device_id is free.
CreateDevice(st, user, device_id, today) ==
    PostSaveDeviceCreated(
        [st EXCEPT !.devices = Put(@, NewId(DOMAIN @, DeviceRowIds),
                                   TrustedDevice(user, device_id))],
        user, today)

\* Room in the bounded tables of the model for one more Device and the
\* notification its signal creates.
RoomForDevice ==
    /\ DOMAIN devices # DeviceRowIds
    /\ DOMAIN notifications # NotifIds

\* The tables the account requests write.
AccountTables ==
    [users |-> users, devices |-> devices, prefs |-> prefs,
     notifications |-> notifications, issued |-> issued]

\* A token generation that keeps a token the user already has.
GenerateTokenKeepingOld(st, name) ==
    [st EXCEPT !.issued = @ + 1,
               !.users[name].email_verification_token =
                   IF @ = None THEN st.issued + 1 ELSE @]

\* User.generate_email_verification_token: a fresh random token is stored.
GenerateToken(st, name) ==
    [st EXCEPT !.issued = @ + 1,
               !.users[name].email_verification_token = st.issued + 1]

\* The field validators of UserRegistrationSerializer.
RegistrationValid(username, email, mobile_number, password) ==
    /\ username # BadUsername
    /\ username \notin DOMAIN users
    /\ UsersWith(users, "email", email) = {}
    /\ UsersWith(users, "mobile_number", mobile_number) = {}
    /\ Length64(password)

\* POST /api/auth/register/: 400 on a validation error; otherwise the User
\* is saved, its token generated and its Device created, each in its own
\* database transaction, and the answer is 201 without tokens.  A device_id
\* that another Device row already has makes Device.objects.create raise
\* IntegrityError, answered 500 with the User already saved.
Register(username, email, mobile_number, password, device_id) ==
    /\ IF ~RegistrationValid(username, email, mobile_number, password)
       THEN /\ resp' = Response("register", username, device_id, 400, "errors", 0, 0)
            /\ UNCHANGED <<users, devices, issued, prefs, notifications>>
       ELSE /\ issued < MaxTokens
            /\ LET st1 == [AccountTables EXCEPT !.users =
                              Put(@, username,
                                  UserRow(email, mobile_number, SetPassword(password),
                                          FALSE, NullText, "local"))]
                   st2 == GenerateToken(st1, username)
               IN  IF DeviceIdTaken(devices, device_id)
                   THEN /\ users' = st2.users
                        /\ issued' = st2.issued
                        /\ resp' = Response("register", username, device_id, 500,
                                            "error", 0, 0)
                        /\ UNCHANGED <<devices, prefs, notifications>>
                   ELSE /\ RoomForDevice
                        /\ LET st3 == CreateDevice(st2, username, device_id, now)
                           IN  /\ users' = st3.users
                               /\ issued' = st3.issued
                               /\ devices' = st3.devices
                               /\ prefs' = st3.prefs
                               /\ notifications' = st3.notifications
                        /\ resp' = Response("register", username, device_id, 201,
                                            "ok", 0, 0)
    /\ UNCHANGED <<inflight, documents, versions, folders, now>>

\* POST /api/auth/login/.  The body of both 401 answers is "Invalid
\* credentials".
Login(username, password) ==
    /\ IF username = Missing \/ password = Missing
       THEN /\ resp' = Response("login", username, password, 400, "required", 0, 0)
            /\ UNCHANGED users
       ELSE IF username \notin DOMAIN users
       THEN /\ resp' = Response("login", username, password, 401,
                                "Invalid credentials", 0, 0)
            /\ UNCHANGED users
       ELSE IF ~CheckPassword(users[username], password)
       THEN /\ resp' = Response("login", username, password, 401,
                                "Invalid credentials", 0, 0)
            /\ UNCHANGED users
       ELSE IF ~users[username].email_verified
       THEN /\ resp' = Response("login", username, password, 403,
                                "Please verify your email", 0, 0)
            /\ UNCHANGED users
       ELSE /\ users' = [users EXCEPT ![username].last_login_at = now]
            /\ resp' = Response("login", username, password, 200, "tokens", 0, 0)
    /\ UNCHANGED <<inflight, devices, issued, documents, versions, folders,
                   notifications, prefs, now>>

\* VerifyEmailSerializer.validate_token: the first user holding the token.
TokenHolder(token) == UsersWith(users, "email_verification_token", token)

\* GET or POST /api/auth/verify-email/: 400 without a token, for a token no
\* user holds and for a user already verified; otherwise the user becomes
\* verified and the token is cleared.
VerifyEmail(token) ==
    /\ IF token = None \/ TokenHolder(token) = {}
       THEN /\ resp' = Response("verify_email", "anonymous", token, 400, "error", 0, 0)
            /\ UNCHANGED users
       ELSE LET name == CHOOSE n \in TokenHolder(token) : TRUE
            IN  IF users[name].email_verified
                THEN /\ resp' = Response("verify_email", name, token, 400, "error", 0, 0)
                     /\ UNCHANGED users
                ELSE /\ users' = [users EXCEPT ![name].email_verified = TRUE,
                                               ![name].email_verification_token = None]
                     /\ resp' = Response("verify_email", name, token, 200, "ok", 0, 0)
    /\ UNCHANGED <<inflight, devices, issued, documents, versions, folders,
                   notifications, prefs, now>>

\* POST /api/auth/resend-verification/: 400 for an unknown email and for a
\* verified user; otherwise a new token replaces the old one, and the
\* answer is 200, or 500 when the mail could not be handed over.
ResendVerification(email, delivered) ==
    /\ LET holders == UsersWith(users, "email", email)
       IN  IF holders = {} \/ \A n \in holders : users[n].email_verified
           THEN /\ resp' = Response("resend_verification", email, None, 400,
                                    "error", 0, 0)
                /\ UNCHANGED <<users, issued>>
           ELSE /\ issued < MaxTokens
                /\ LET name == CHOOSE n \in holders : TRUE
                       st == GenerateToken(AccountTables, name)
                   IN  /\ users' = st.users
                       /\ issued' = st.issued
                       /\ resp' = Response("resend_verification", name, st.issued,
                                           IF delivered THEN 200 ELSE 500,
                                           IF delivered THEN "ok" ELSE "error", 0, 0)
    /\ UNCHANGED <<inflight, devices, documents, versions, folders, notifications, prefs, now>>

\* What Google's verification of an ID token yields: the account's id, its
\* email address and whether Google has verified it.  InvalidToken is a
\* token the verification rejects.
GoogleAccounts ==
    {[google_id |-> "g-alice", email |-> "alice@x", email_verified |-> TRUE],
     [google_id |-> "g-carol", email |-> "carol@x", email_verified |-> TRUE]}
InvalidToken == [google_id |-> NullText, email |-> NullText, email_verified |-> FALSE]

\* The lookup by google_id alone.
GoogleExistingById(u, info) ==
    IF UsersWith(u, "google_id", info.google_id) # {}
    THEN CHOOSE n \in UsersWith(u, "google_id", info.google_id) : TRUE
    ELSE NullText

\* GoogleLoginSerializer: the user with this google_id, else with this
\* email, else NullText.
GoogleExistingUser(u, info) ==
    IF UsersWith(u, "google_id", info.google_id) # {}
    THEN CHOOSE n \in UsersWith(u, "google_id", info.google_id) : TRUE
    ELSE IF UsersWith(u, "email", info.email) # {}
    THEN CHOOSE n \in UsersWith(u, "email", info.email) : TRUE
    ELSE NullText

\* A lookup that never finds a row.
DeviceNeverFound(d, user, device_id) == FALSE

\* Device.objects.get_or_create(user=user, device_id=...) finds a row.
DeviceFound(d, user, device_id) == DevicesOf(d, user, device_id) # {}

\* A Google login request: what the token resolves to, the mobile number
\* and the device.
GoogleRequest(info, mobile_number, device_id) ==
    [google_id |-> info.google_id, email |-> info.email,
     mobile_number |-> mobile_number, device_id |-> device_id]

\* POST /api/auth/google/.  mobile_number is Missing when the request has
\* none.  An existing user gets google_id filled in when it is empty and a
\* Device by get_or_create; a new user is created with the username
\* derived from the email, then its Device.  Every uniqueness violation
\* (username, mobile_number, device_id) is an IntegrityError answered 500,
\* with the writes made before it kept.
GoogleLogin(info, mobile_number, device_id) ==
    /\ LET existing == GoogleExistingUser(users, info)
           request == GoogleRequest(info, mobile_number, device_id)
       IN  IF info = InvalidToken \/ (existing = NullText /\ mobile_number = Missing)
           THEN /\ resp' = Response("google_login", info.email, request, 400,
                                    "error", 0, 0)
                /\ UNCHANGED <<users, devices, prefs, notifications>>
           ELSE IF existing # NullText
           THEN LET st1 == IF users[existing].google_id = NullText
                           THEN [AccountTables EXCEPT
                                    !.users[existing].google_id = info.google_id]
                           ELSE AccountTables
                IN  IF DeviceFound(devices, existing, device_id)
                    THEN /\ users' = [st1.users EXCEPT ![existing].last_login_at = now]
                         /\ resp' = Response("google_login", existing, request,
                                             200, "tokens", 0, 0)
                         /\ UNCHANGED <<devices, prefs, notifications>>
                    ELSE IF DeviceIdTaken(devices, device_id)
                    THEN /\ users' = st1.users
                         /\ resp' = Response("google_login", existing, request,
                                             500, "error", 0, 0)
                         /\ UNCHANGED <<devices, prefs, notifications>>
                    ELSE /\ RoomForDevice
                         /\ LET st2 == CreateDevice(st1, existing, device_id, now)
                            IN  /\ users' = [st2.users EXCEPT
                                                ![existing].last_login_at = now]
                                /\ devices' = st2.devices
                                /\ prefs' = st2.prefs
                                /\ notifications' = st2.notifications
                         /\ resp' = Response("google_login", existing, request,
                                             200, "tokens", 0, 0)
           ELSE LET name == EmailHash(info.email)
                IN  IF \/ name \in DOMAIN users
                       \/ UsersWith(users, "mobile_number", mobile_number) # {}
                    THEN /\ resp' = Response("google_login", name, request, 500,
                                             "error", 0, 0)
                         /\ UNCHANGED <<users, devices, prefs, notifications>>
                    ELSE LET st1 == [AccountTables EXCEPT !.users =
                                        Put(@, name,
                                            UserRow(info.email, mobile_number,
                                                    UNUSABLE_PASSWORD,
                                                    info.email_verified,
                                                    info.google_id, "google"))]
                         IN  IF DeviceIdTaken(devices, device_id)
                             THEN /\ users' = st1.users
                                  /\ resp' = Response("google_login", name, request,
                                                      500, "error", 0, 0)
                                  /\ UNCHANGED <<devices, prefs, notifications>>
                             ELSE /\ RoomForDevice
                                  /\ LET st2 == CreateDevice(st1, name, device_id, now)
                                     IN  /\ users' = [st2.users EXCEPT
                                                         ![name].last_login_at = now]
                                         /\ devices' = st2.devices
                                         /\ prefs' = st2.prefs
                                         /\ notifications' = st2.notifications
                                  /\ resp' = Response("google_login", name, request,
                                                      200, "tokens", 0, 0)
    /\ UNCHANGED <<inflight, issued, documents, versions, folders, now>>

\* DELETE /api/auth/devices/{id}/: the caller's Device row is deleted; a
\* row of another user or no row is answered 404.
RemoveDevice(u, id) ==
    /\ IF id \in DOMAIN devices /\ devices[id].user = u
       THEN /\ devices' = Remove(devices, {id})
            /\ resp' = Response("remove_device", u, id, 200, "ok", 0, 0)
       ELSE /\ resp' = Response("remove_device", u, id, 404, "error", 0, 0)
            /\ UNCHANGED devices
    /\ UNCHANGED <<inflight, users, issued, documents, versions, folders,
                   notifications, prefs, now>>

\* ------------------------------------------------------------------------
\* Specification of the account requests
\* ------------------------------------------------------------------------
PasswordChoices == {"h1", "h3", NonHex64, "p1", Missing}

AuthNext ==
    \/ \E name \in {"carol", "alice", BadUsername}, email \in {"carol@x", "bob@x"},
          mobile \in {"+1000000003"}, password \in {"h3", NonHex64, "p2"},
          device \in DeviceIdentifiers :
          Register(name, email, mobile, password, device)
    \/ \E name \in {"alice", "carol", Missing}, password \in PasswordChoices :
          Login(name, password)
    \/ \E token \in Tokens \cup {None} : VerifyEmail(token)
    \/ \E email \in {"carol@x", "alice@x"}, delivered \in BOOLEAN :
          ResendVerification(email, delivered)
    \/ \E info \in GoogleAccounts \cup {InvalidToken},
          mobile \in {"+1000000003", Missing}, device \in DeviceIdentifiers :
          GoogleLogin(info, mobile, device)
    \/ \E id \in DeviceRowIds : RemoveDevice("alice", id)
    \/ now + 1 < MaxDay /\ Tick

SpecAuth == Init /\ [][AuthNext]_vars

\* ------------------------------------------------------------------------
\* Claims about the document store
\* ------------------------------------------------------------------------
\* Version 1 of document d is in the version table vs.
HasVersionOne(vs, d) == \E v \in vs : v.document = d /\ v.version_number = 1

\* C1: an upload request succeeds (201) if and only if afterwards the
\* caller's storage_used is its value before plus the file size and the new
\* Document has a DocumentVersion 1; an upload whose size would take
\* storage_used over the tier limit changes neither storage_used nor the
\* Document and DocumentVersion tables.
C1_UploadContract ==
    [][resp'.op = "upload" =>
        LET u == resp'.user
            s == resp'.size
        IN  /\ (resp'.status = 201) <=>
                  /\ users'[u].storage_used = users[u].storage_used + s
                  /\ \E d \in DOMAIN documents' \ DOMAIN documents :
                        /\ d = resp'.target
                        /\ documents'[d].user = u
                        /\ HasVersionOne(versions', d)
            /\ (users[u].storage_used + s > StorageLimit(users[u].subscription_tier)) =>
                  /\ resp'.status = 400
                  /\ users' = users
                  /\ documents' = documents
                  /\ versions' = versions]_vars

\* An upload was rejected for quota after an earlier upload of the same
\* user had been accepted.
C1_Witness ==
    /\ resp.op = "upload" /\ resp.status = 400 /\ resp.detail = "file"
    /\ users[resp.user].storage_used > 0
    /\ users[resp.user].storage_used + resp.size > FREE_LIMIT

\* C2: after an upload request has finished, whether it succeeded or one of
\* its three writes raised, either the Document row, its DocumentVersion 1
\* and the storage_used increment are all persisted or none of them is.
C2_UploadAllOrNothing ==
    [][resp'.op = "upload" =>
        LET u == resp'.user
            s == resp'.size
        IN  \/ /\ DOMAIN documents' # DOMAIN documents
               /\ \A d \in DOMAIN documents' \ DOMAIN documents :
                     HasVersionOne(versions', d)
               /\ users'[u].storage_used = users[u].storage_used + s
            \/ /\ documents' = documents
               /\ versions' = versions
               /\ users' = users]_vars

\* An upload ended with an exception raised inside the atomic block.
C2_Witness == resp.op = "upload" /\ resp.status = 400 /\ resp.detail = "error"

\* C3: a DELETE of a document that the caller owns and that is not deleted
\* is answered 200 and leaves the row in place with is_deleted set and
\* deleted_at set, keeps its DocumentVersion rows, and lowers the owner's
\* storage_used by exactly the document's file_size.
C3_SoftDeleteContract ==
    [][(/\ resp'.op = "delete"
        /\ resp'.target \in DOMAIN documents
        /\ documents[resp'.target].user = resp'.user
        /\ ~documents[resp'.target].is_deleted) =>
        LET d == resp'.target
            o == documents[d].user
        IN  /\ resp'.status = 200
            /\ d \in DOMAIN documents'
            /\ documents'[d].is_deleted
            /\ documents'[d].deleted_at # None
            /\ documents'[d].file_size = documents[d].file_size
            /\ versions' = versions
            /\ HasVersionOne(versions', d)
            /\ users'[o].storage_used = users[o].storage_used - documents[d].file_size]_vars

\* A document has been soft-deleted.
C3_Witness ==
    /\ resp.op = "delete" /\ resp.status = 200
    /\ documents[resp.target].is_deleted

\* ------------------------------------------------------------------------
\* Claims about folders
\* ------------------------------------------------------------------------
\* Folder g is f or lies below f: following at most k parent links from g
\* arrives at f.
RECURSIVE InSubtree(_, _, _, _)
InSubtree(fs, g, f, k) ==
    \/ g = f
    \/ /\ k > 0
       /\ fs[g].parent # None
       /\ fs[g].parent \in DOMAIN fs
       /\ InSubtree(fs, fs[g].parent, f, k - 1)

\* C4: deleting a folder removes it and all of its descendant subfolders,
\* sets folder to null on every document that was in a removed folder,
\* deletes no Document row and changes nothing else of any document, and
\* leaves storage_used (and the version table) unchanged.
C4_FolderDeleteCascade ==
    [][(resp'.op = "folder_delete" /\ resp'.status = 204) =>
        LET f == resp'.target
            removed == {g \in DOMAIN folders :
                           InSubtree(folders, g, f, Cardinality(DOMAIN folders))}
        IN  /\ DOMAIN folders' = DOMAIN folders \ removed
            /\ \A g \in DOMAIN folders' : folders'[g] = folders[g]
            /\ DOMAIN documents' = DOMAIN documents
            /\ \A d \in DOMAIN documents :
                  documents'[d] = IF documents[d].folder \in removed
                                  THEN [documents[d] EXCEPT !.folder = None]
                                  ELSE documents[d]
            /\ users' = users
            /\ versions' = versions]_vars

\* A folder delete removed three folders and detached a document from one.
C4_Witness ==
    /\ resp.op = "folder_delete" /\ resp.status = 204
    /\ resp.count = 3 /\ resp.size >= 1
    /\ \E d \in DOMAIN documents : documents[d].folder = None

\* ------------------------------------------------------------------------
\* Claims about notification preferences
\* ------------------------------------------------------------------------
\* C5: in every state reachable through preference GET and PUT requests,
\* PUTs that carry only one of the two thresholds included, every persisted
\* NotificationPreference has storage_critical_threshold greater than
\* storage_warning_threshold.
C5_ThresholdOrder ==
    \A u \in DOMAIN prefs :
        prefs[u].storage_critical_threshold > prefs[u].storage_warning_threshold

\* ------------------------------------------------------------------------
\* Claims about the expiry scan
\* ------------------------------------------------------------------------
\* DOCUMENT_EXPIRY notifications of document d created on day today.
ExpiryNotificationsToday(n, d, today) ==
    {i \in DOMAIN n : /\ n[i].document = d
                      /\ n[i].notification_type = "DOCUMENT_EXPIRY"
                      /\ n[i].created_at = today}

\* C6: a run of check_document_expiry creates exactly one new
\* DOCUMENT_EXPIRY notification for every document with has_expiry that
\* expires in 7 days, whose owner has alert_7_days set and that has no
\* DOCUMENT_EXPIRY notification created on the current day; a run that
\* directly follows a run on the same day creates none.
C6_ExpiryScanOnce ==
    [][resp'.op = "check_document_expiry" =>
        /\ \A d \in DocumentsWithExpiry :
              LET row == documents[d]
              IN  (/\ Decryptable(row.encrypted_expiry_date)
                   /\ DecryptText(row.encrypted_expiry_date) - now = 7
                   /\ GetOrCreatePrefs(prefs, row.user)[row.user].alert_7_days
                   /\ ExpiryNotificationsToday(notifications, d, now) = {})
                  => Cardinality(ExpiryNotificationsToday(notifications', d, now)) = 1
        /\ resp.op = "check_document_expiry" =>
              \A d \in DOMAIN documents :
                  ExpiryNotificationsToday(notifications', d, now)
                      = ExpiryNotificationsToday(notifications, d, now)
      ]_vars

C6_Witness ==
    /\ resp.op = "check_document_expiry"
    /\ \E d \in DocumentsWithExpiry :
          /\ Decryptable(documents[d].encrypted_expiry_date)
          /\ DecryptText(documents[d].encrypted_expiry_date) - now = 7
          /\ documents[d].user \in DOMAIN prefs
          /\ prefs[documents[d].user].alert_7_days

\* ------------------------------------------------------------------------
\* Claims about notifications
\* ------------------------------------------------------------------------
\* C7: mark_read by a caller with a non-empty list of ids that are all
\* notifications of the caller answers 200, sets is_read and read_at on
\* exactly the listed notifications that were unread, returns the number of
\* rows it changed as count and changes no other notification; a list with
\* an id that does not exist or is another user's is answered 400 and no
\* notification changes.
C7_MarkReadFrame ==
    [][resp'.op = "mark_read" =>
        LET u == resp'.user
            ids == resp'.target
            own == {i \in DOMAIN notifications : notifications[i].user = u}
            changed == {i \in ids \cap own : ~notifications[i].is_read}
        IN  /\ (ids # {} /\ ids \subseteq own) =>
                  /\ resp'.status = 200
                  /\ resp'.count = Cardinality(changed)
                  /\ DOMAIN notifications' = DOMAIN notifications
                  /\ \A i \in DOMAIN notifications :
                        IF i \in changed
                        THEN /\ notifications'[i].is_read
                             /\ notifications'[i].read_at # None
                             /\ notifications'[i] =
                                    [notifications[i] EXCEPT
                                        !.is_read = TRUE,
                                        !.read_at = notifications'[i].read_at]
                        ELSE notifications'[i] = notifications[i]
            /\ (ids # {} /\ ~(ids \subseteq own)) =>
                  /\ resp'.status = 400
                  /\ notifications' = notifications
      ]_vars

C7_Witness ==
    /\ resp.op = "mark_read"
    /\ resp.status = 200
    /\ resp.count >= 1
    /\ \E i \in DOMAIN notifications \ resp.target :
          notifications[i].user = resp.user /\ ~notifications[i].is_read

\* C8: in every state reached through notification creation, PATCH, PUT,
\* mark_read, mark_all_read, the delete routes and the admin actions
\* mark-as-read and mark-as-unread, a notification has read_at set exactly
\* when is_read is true.
C8_ReadAtIffIsRead ==
    \A i \in DOMAIN notifications :
        (notifications[i].read_at # None) <=> notifications[i].is_read

C8_Witness ==
    /\ resp.op = "partial_update"
    /\ resp.detail = "unread"
    /\ resp.status = 200
    /\ ~notifications[resp.target].is_read
    /\ notifications[resp.target].read_at = None
    /\ \E i \in DOMAIN notifications :
          notifications[i].is_read /\ notifications[i].read_at # None

\* The notifications a run of send_email_notifications started in the
\* state (n, p) flags.
EmailRunFlags(n, p) ==
    {i \in DOMAIN n :
        /\ ~n[i].email_sent
        /\ ~n[i].is_read
        /\ ShouldEmail(GetOrCreatePrefs(p, n[i].user)[n[i].user], n[i].notification_type)}

\* The notifications a run of send_push_notifications started in the state
\* (n, p) on day today flags.
PushRunFlags(n, p, today) ==
    {i \in DOMAIN n :
        /\ ~n[i].push_sent
        /\ ~n[i].is_read
        /\ n[i].created_at >= today - PUSH_WINDOW_DAYS
        /\ ShouldPush(GetOrCreatePrefs(p, n[i].user)[n[i].user], n[i].notification_type)}

\* C9: no request, job or handler changes email_sent or push_sent of a
\* notification from true to false, and a run of send_email_notifications
\* (send_push_notifications) started directly after a run of the same job
\* finds no notification to flag, so it flags none and returns 0.
C9_SentFlagsMonotonic ==
    [][/\ \A i \in DOMAIN notifications \cap DOMAIN notifications' :
             /\ notifications[i].email_sent => notifications'[i].email_sent
             /\ notifications[i].push_sent => notifications'[i].push_sent
       /\ resp'.op = "send_email_notifications" =>
             /\ Cardinality(EmailRunFlags(notifications, prefs)) = resp'.count
             /\ EmailRunFlags(notifications', prefs') = {}
       /\ resp'.op = "send_push_notifications" =>
             /\ Cardinality(PushRunFlags(notifications, prefs, now)) = resp'.count
             /\ PushRunFlags(notifications', prefs', now') = {}
       /\ \A job \in {"send_email_notifications", "send_push_notifications"} :
             (resp.op = job /\ resp'.op = job) =>
                 /\ resp'.count = 0
                 /\ notifications' = notifications
      ]_vars

C9_Witness ==
    /\ resp.op = "send_email_notifications"
    /\ resp.count = 0
    /\ \E i \in DOMAIN notifications :
          notifications[i].email_sent /\ ~notifications[i].is_read
    /\ \E i \in DOMAIN notifications :
          ~notifications[i].email_sent /\ ~notifications[i].is_read

\* Requests of the notification API that reach a handler of the viewset.
NotificationApiOps ==
    {"partial_update", "update", "destroy", "mark_read", "mark_all_read",
     "delete_all_read"}

ReadStateKept ==
    \A i \in DOMAIN notifications \cap DOMAIN notifications' :
        notifications[i].is_read => notifications'[i].is_read

ComparedHash(password) ==
    IF Length64(password) /\ password \in HexHashes THEN password ELSE Sha256(password)

\* C11 as stated: login answers 200 if and only if the username exists,
\* the supplied password hash equals the stored hash and email_verified is
\* true; an unknown username and a wrong hash are both answered 401 with
\* the same body, and a correct hash for an unverified user 403.
C11_LoginDirectEquality ==
    [][resp'.op = "login" =>
         LET name == resp'.user
             known == name \in DOMAIN users
             equal == known /\ users[name].password = resp'.target
         IN  /\ resp'.status = 200 <=> (equal /\ users[name].email_verified)
             /\ ~equal => (resp'.status = 401 /\ resp'.detail = "Invalid credentials")
             /\ (equal /\ ~users[name].email_verified) => resp'.status = 403]_vars

\* C11: login answers 200 if and only if the username exists, email_verified
\* is true and the stored hash equals the supplied password, taken as it is
\* when it is 64 lowercase hex digits and replaced by its SHA-256 digest
\* otherwise; a request whose username or password is empty is answered
\* 400; of the other requests, those with an unknown username or a
\* password that does not match are answered 401 with the same body
\* whatever the verification state, and those with a matching password for
\* an unverified user 403; only a 200 changes the user (last_login_at).
C11_LoginContract ==
    [][resp'.op = "login" =>
         LET name == resp'.user
             present == name # Missing /\ resp'.target # Missing
             known == name \in DOMAIN users
             match == known /\ users[name].password = ComparedHash(resp'.target)
         IN  /\ resp'.status = 200 <=>
                   (present /\ match /\ users[name].email_verified)
             /\ ~present => resp'.status = 400
             /\ (present /\ ~match) =>
                   (resp'.status = 401 /\ resp'.detail = "Invalid credentials")
             /\ (present /\ match /\ ~users[name].email_verified) =>
                   resp'.status = 403
             /\ IF resp'.status = 200
                THEN users' = [users EXCEPT ![name].last_login_at = now]
                ELSE users' = users]_vars

\* A login with a plain password, which is not a 64-digit hex string, was
\* answered 200, and so was refused to an unverified user before.
C11_Witness ==
    /\ resp.op = "login"
    /\ resp.status = 200
    /\ resp.target \in PlainPasswords \cup {NonHex64}
    /\ resp.user = "carol"

\* The Device rows of user.
UserDevices(d, user) == {i \in DOMAIN d : d[i].user = user}

\* C12: a successful register (201) creates exactly one User, with
\* email_verified False, and exactly one Device for it, with is_trusted
\* True, changes no other user or device and returns no token; an
\* unverified user becomes verified only through a verify_email request
\* that succeeds with the token that user holds, and never becomes
\* unverified again; login of a registered (local) user with the matching
\* password is answered 403 while the user is unverified and 200 with
\* tokens once verified.
C12_RegisterVerifyLogin ==
    [][/\ (resp'.op = "register" /\ resp'.status = 201) =>
            LET name == resp'.user
            IN  /\ name \notin DOMAIN users
                /\ DOMAIN users' = DOMAIN users \cup {name}
                /\ \A n \in DOMAIN users : users'[n] = users[n]
                /\ ~users'[name].email_verified
                /\ users'[name].email_verification_token # None
                /\ \E i \in DOMAIN devices' \ DOMAIN devices :
                      /\ DOMAIN devices' = DOMAIN devices \cup {i}
                      /\ devices'[i] = [user |-> name, device_id |-> resp'.target,
                                        is_trusted |-> TRUE]
                      /\ UserDevices(devices', name) = {i}
                /\ \A i \in DOMAIN devices : devices'[i] = devices[i]
                /\ resp'.detail # "tokens"
       /\ \A name \in DOMAIN users :
            /\ users[name].email_verified => users'[name].email_verified
            /\ (~users[name].email_verified /\ users'[name].email_verified) =>
                  /\ resp'.op = "verify_email"
                  /\ resp'.status = 200
                  /\ resp'.target # None
                  /\ resp'.target = users[name].email_verification_token
       /\ (/\ resp'.op = "login"
           /\ resp'.user \in DOMAIN users
           /\ resp'.target # Missing) =>
            LET row == users[resp'.user]
            IN  (row.auth_provider = "local"
                 /\ row.password = ComparedHash(resp'.target)) =>
                    /\ resp'.status = (IF row.email_verified THEN 200 ELSE 403)
                    /\ resp'.detail = "tokens" <=> row.email_verified]_vars

\* carol registered, was refused while unverified, verified her email and
\* has now logged in; her Device is the trusted one of the registration.
C12_Witness ==
    /\ resp.op = "login"
    /\ resp.status = 200
    /\ resp.user = "carol"
    /\ users["carol"].auth_provider = "local"
    /\ users["carol"].email_verification_token = None
    /\ \E i \in DOMAIN devices : devices[i].user = "carol" /\ devices[i].is_trusted

\* ------------------------------------------------------------------------
\* Claims about the folder tree and the documents filed in it
\* ------------------------------------------------------------------------
\* C13: in every state reachable through folder create and folder update
\* requests, updates of the category alone or of the parent alone included,
\* each folder that has a parent has the user and the category of its
\* parent.
C13_ParentSameUserCategory ==
    \A f \in DOMAIN folders :
        folders[f].parent # None =>
            /\ folders[f].parent \in DOMAIN folders
            /\ folders[folders[f].parent].user = folders[f].user
            /\ folders[folders[f].parent].category = folders[f].category

\* C14: a folder update by the owner that sets the folder's parent to the
\* folder itself is answered 400 and leaves the folder, its parent
\* included, and every other folder unchanged; no folder is ever its own
\* parent.
C14_SelfParentRejected ==
    [][/\ (/\ resp'.op = "folder_update"
           /\ resp'.target.parent = resp'.target.folder
           /\ resp'.target.folder \in OwnFolders(resp'.user)) =>
              /\ resp'.status = 400
              /\ resp'.detail \in {"parent: same category", "parent: own parent"}
              /\ folders' = folders
       /\ \A f \in DOMAIN folders' : folders'[f].parent # f]_vars

\* The owner asked to make a folder that has a parent its own parent and
\* was refused.
C14_Witness ==
    /\ resp.op = "folder_update"
    /\ resp.target.parent = resp.target.folder
    /\ resp.status = 400
    /\ resp.target.folder \in OwnFolders(resp.user)
    /\ folders[resp.target.folder].parent \notin {None, resp.target.folder}

\* C15: in every state reachable through upload, document update, move and
\* folder update requests, each document that is in a folder has the
\* category of that folder.
C15_DocumentSameCategory ==
    \A d \in DOMAIN documents :
        (~documents[d].is_deleted /\ documents[d].folder # None) =>
            /\ documents[d].folder \in DOMAIN folders
            /\ documents[d].category = folders[documents[d].folder].category

\* The listed documents that the caller owns and that are not deleted.
OwnedListed(u, listed) ==
    {d \in DOMAIN documents :
        d \in listed /\ documents[d].user = u /\ ~documents[d].is_deleted}

\* C16: a move with a non-empty document_ids list and a folder_id that is
\* null or a folder of the caller, when at least one listed document is
\* the caller's and not deleted, sets folder on exactly those documents,
\* reports their number as moved_count and leaves every other document and
\* every other column unchanged; when the folder does not exist or is not
\* the caller's, or no listed id is such a document, the answer is 404 and
\* no document changes.
C16_MoveFrame ==
    [][(resp'.op = "move" /\ resp'.target.document_ids # {}) =>
         LET u == resp'.user
             folder_id == resp'.target.folder_id
             matched == OwnedListed(u, resp'.target.document_ids)
             folderOk == \/ folder_id = None
                         \/ (folder_id \in DOMAIN folders /\ folders[folder_id].user = u)
         IN  IF folderOk /\ matched # {}
             THEN /\ resp'.status = 200
                  /\ resp'.count = Cardinality(matched)
                  /\ DOMAIN documents' = DOMAIN documents
                  /\ \A d \in DOMAIN documents :
                        IF d \in matched
                        THEN documents'[d] = [documents[d] EXCEPT !.folder = folder_id]
                        ELSE documents'[d] = documents[d]
             ELSE /\ resp'.status = 404
                  /\ documents' = documents]_vars

\* A move of two listed documents into a folder moved the one that is the
\* caller's and not deleted and left the other where it was.
C16_Witness ==
    /\ resp.op = "move"
    /\ resp.status = 200
    /\ resp.count = 1
    /\ Cardinality(resp.target.document_ids) = 2
    /\ resp.target.folder_id # None
    /\ \E d \in resp.target.document_ids :
          d \in DOMAIN documents /\ documents[d].folder # resp.target.folder_id

\* ------------------------------------------------------------------------
\* Claims about the separation of users
\* ------------------------------------------------------------------------
\* The step left every row of user b, b's preferences, b's account and the
\* versions of b's documents as they were, and created no row for b.
RowsKept(b) ==
    /\ \A d \in DOMAIN documents :
          documents[d].user = b => (d \in DOMAIN documents' /\ documents'[d] = documents[d])
    /\ \A d \in DOMAIN documents' \ DOMAIN documents : documents'[d].user # b
    /\ \A f \in DOMAIN folders :
          folders[f].user = b => (f \in DOMAIN folders' /\ folders'[f] = folders[f])
    /\ \A f \in DOMAIN folders' \ DOMAIN folders : folders'[f].user # b
    /\ \A i \in DOMAIN notifications :
          notifications[i].user = b =>
              (i \in DOMAIN notifications' /\ notifications'[i] = notifications[i])
    /\ \A i \in DOMAIN notifications' \ DOMAIN notifications : notifications'[i].user # b
    /\ \A v \in versions : documents[v.document].user = b => v \in versions'
    /\ \A v \in versions' \ versions : documents'[v.document].user # b
    /\ (b \in DOMAIN prefs) <=> (b \in DOMAIN prefs')
    /\ b \in DOMAIN prefs => prefs'[b] = prefs[b]
    /\ users'[b] = users[b]

\* Every row the answer returns to user a is a row of a.
ReturnedOwn(a) ==
    /\ resp'.op = "list_documents" => \A d \in resp'.target : documents[d].user = a
    /\ resp'.op = "list_folders" => \A f \in resp'.target : folders[f].user = a
    /\ resp'.op = "list_notifications" =>
          \A i \in resp'.target : notifications[i].user = a
    /\ (resp'.op = "retrieve_document" /\ resp'.status = 200) =>
          documents[resp'.target].user = a
    /\ (resp'.op = "retrieve_notification" /\ resp'.status = 200) =>
          notifications[resp'.target].user = a
    /\ (resp'.op = "folder_tree" /\ resp'.status = 200) =>
          /\ \A f \in Subtree(resp'.target) : folders[f].user = a
          /\ \A d \in TreeDocuments(resp'.target) : documents[d].user = a

\* The answer to a request that names, in its URL, an id that is no row of
\* the caller: the same whether the id is a row of another user or no row.
NotFoundStatus(op) ==
    IF op \in {"partial_update", "destroy", "retrieve_notification"} THEN 500 ELSE 404

\* The request of the step names id, in the table rows, in its URL, and id
\* is no row of user a there: the answer is the not-found answer of the
\* operation and no table changes.
UrlIdHidden(a) ==
    LET op == resp'.op
        folderId == IF op = "folder_update" THEN resp'.target.folder ELSE resp'.target
        docId == IF op = "document_update" THEN resp'.target.document ELSE resp'.target
        hidden ==
            \/ /\ op \in {"folder_update", "folder_delete", "folder_tree"}
               /\ (folderId \notin DOMAIN folders \/ folders[folderId].user # a)
            \/ /\ op \in {"document_update", "delete", "retrieve_document"}
               /\ (docId \notin DOMAIN documents \/ documents[docId].user # a)
            \/ /\ op \in {"partial_update", "update", "destroy", "retrieve_notification"}
               /\ (resp'.target \notin DOMAIN notifications
                   \/ notifications[resp'.target].user # a)
    IN  /\ hidden =>
              /\ resp'.status = NotFoundStatus(op)
              /\ resp'.detail = "error"
              /\ UNCHANGED <<users, documents, versions, folders, notifications, prefs>>
        /\ (/\ op = "move"
            /\ resp'.target.folder_id # None
            /\ resp'.target.folder_id \notin OwnFolders(a)) =>
              /\ resp'.status = 404
              /\ documents' = documents
        /\ (op = "mark_read" /\ ~(resp'.target \subseteq OwnNotifications(notifications, a))) =>
              /\ resp'.status = 400
              /\ notifications' = notifications

\* The folder another user owns, named as parent in the body of an update
\* of an own folder or as folder in the body of an update of an own
\* document.
ForeignParentNamed(a) ==
    /\ resp'.op = "folder_update"
    /\ resp'.target.folder \in OwnFolders(a)
    /\ resp'.target.parent \in DOMAIN folders
    /\ folders[resp'.target.parent].user # a

ForeignFolderNamed(a) ==
    /\ resp'.op = "document_update"
    /\ resp'.target.document \in VisibleDocuments(a)
    /\ resp'.target.folder \in DOMAIN folders
    /\ folders[resp'.target.folder].user # a

\* What holds of every request of a user a towards every other user b.
IsolationCore ==
    resp'.user \in Users =>
        LET a == resp'.user
        IN  /\ \A b \in Users \ {a} : RowsKept(b)
            /\ ReturnedOwn(a)
            /\ UrlIdHidden(a)

\* C17 as stated: no request of a user a returns or modifies a document,
\* folder, notification or preference row of another user b or changes b's
\* storage_used, and every request of a that names a row of b by id is
\* answered as the same request naming no row is, the id of a parent or
\* folder in a request body included.
C17_IsolationAsStated ==
    [][/\ IsolationCore
       /\ resp'.user \in Users =>
            /\ ForeignParentNamed(resp'.user) => resp'.detail = "parent: does not exist"
            /\ ForeignFolderNamed(resp'.user) => resp'.detail = "folder: does not exist"]_vars

\* C17: no request of a user a returns or modifies a document, folder,
\* notification or preference row of another user b, creates a row for b
\* or changes b's account (storage_used included); a request of a whose URL
\* names an id that is a row of b, and a move or mark_read that names one,
\* is answered exactly as for an id that is no row at all and writes
\* nothing; a request that names a folder of b as parent of an own folder
\* or as folder of an own document is answered 400 and writes nothing, with
\* the message "must belong to you", which an id that is no row does not
\* get.
C17_Isolation ==
    [][/\ IsolationCore
       /\ resp'.user \in Users =>
            /\ ForeignParentNamed(resp'.user) =>
                  /\ resp'.status = 400
                  /\ resp'.detail = "parent: must belong to you"
                  /\ folders' = folders
            /\ ForeignFolderNamed(resp'.user) =>
                  /\ resp'.status = 400
                  /\ resp'.detail = "folder: must belong to you"
                  /\ documents' = documents]_vars

\* bob has a folder, a document, a notification and preferences; alice
\* asked to file her document in bob's folder and was refused.
C17_Witness ==
    /\ resp.op = "document_update"
    /\ resp.user = "alice"
    /\ resp.status = 400
    /\ resp.target.document \in VisibleDocuments("alice")
    /\ resp.target.folder \in OwnFolders("bob")
    /\ \E d \in DOMAIN documents : documents[d].user = "bob"
    /\ OwnNotifications(notifications, "bob") # {}
    /\ "bob" \in DOMAIN prefs

\* C18: every successful registration or Google login by user U with device
\* identifier D leaves exactly one Device row for (U, D); a Google login
\* that resolves to an existing user U who already has a Device row for D
\* succeeds and adds no row; the Device rows created for a user who had
\* none are trusted; and no two Device rows ever share user and device
\* identifier.
C18_OneDevicePerUserAndId ==
    [][/\ (resp'.op = "register" /\ resp'.status = 201) =>
            Cardinality(DevicesOf(devices', resp'.user, resp'.target)) = 1
       /\ (resp'.op = "google_login" /\ resp'.status = 200) =>
            Cardinality(DevicesOf(devices', resp'.user, resp'.target.device_id)) = 1
       /\ (resp'.op = "google_login" /\ resp'.target.google_id # NullText) =>
            LET U == GoogleExistingUser(users, resp'.target)
            IN  (U # NullText /\ DevicesOf(devices, U, resp'.target.device_id) # {}) =>
                    /\ resp'.status = 200
                    /\ resp'.user = U
                    /\ devices' = devices
       /\ \A u \in DOMAIN users' :
            UserDevices(devices, u) = {} =>
                \A i \in UserDevices(devices', u) : devices'[i].is_trusted
       /\ \A i, j \in DOMAIN devices' :
            (devices'[i].user = devices'[j].user
             /\ devices'[i].device_id = devices'[j].device_id) => i = j]_vars

\* A Google login on a later day by a user whose only Device row, for the
\* same device identifier, dates from an earlier day: the security alert
\* of that row's creation is the only one, so this login added no row.
C18_Witness ==
    /\ resp.op = "google_login"
    /\ resp.status = 200
    /\ now > 1
    /\ users[resp.user].last_login_at = now
    /\ Cardinality(UserDevices(devices, resp.user)) = 1
    /\ DevicesOf(devices, resp.user, resp.target.device_id) # {}
    /\ \A i \in OwnNotifications(notifications, resp.user) :
          notifications[i].created_at < now

\* ------------------------------------------------------------------------
\* Claims about the alert jobs
\* ------------------------------------------------------------------------
\* The storage alerts of user created on or after the day since.
StorageAlertsSince(n, user, since) ==
    {id \in DOMAIN n : /\ n[id].user = user
                       /\ n[id].notification_type = "SYSTEM"
                       /\ n[id].created_at >= since}

\* C19: storage alerts fire once per window. A storage check of a user
\* whose usage is at or above the critical threshold creates an alert only
\* when the user has no storage alert of the last day; at or above the
\* warning threshold and below the critical one, only when there is none
\* of the last seven days; below the warning threshold it creates none.
C19_StorageAlertOncePerWindow ==
    [][resp'.op = "check_storage_alerts" =>
          LET u == resp'.user
              pct == resp'.size
              warning == IF u \in DOMAIN prefs
                         THEN prefs[u].storage_warning_threshold ELSE 80
              critical == IF u \in DOMAIN prefs
                          THEN prefs[u].storage_critical_threshold ELSE 95
              created == DOMAIN notifications' \ DOMAIN notifications
          IN  /\ Cardinality(created) <= 1
              /\ pct < warning /\ pct < critical => created = {}
              /\ pct >= critical /\ created # {} =>
                     StorageAlertsSince(notifications, u, now - 1) = {}
              /\ pct >= warning /\ pct < critical /\ created # {} =>
                     StorageAlertsSince(notifications, u, now - 7) = {}]_vars

\* The preference switch that gates the offset of days, FALSE for an
\* offset without an alert.
OffsetEnabled(p, days) ==
    \/ days = 0 /\ p.alert_on_expiry
    \/ days = 1 /\ p.alert_1_day
    \/ days = 7 /\ p.alert_7_days
    \/ days = 15 /\ p.alert_15_days
    \/ days = 30 /\ p.alert_30_days

\* Documents for which the scan that ends in resp' went on to create a
\* notification: create_expiry_alert was called for them or a new
\* notification refers to them.
ScanNotified ==
    resp'.target \cup
        {notifications'[i].document :
             i \in DOMAIN notifications' \ DOMAIN notifications}

\* C20: in an expiry scan a document with d >= 0 days until expiry is
\* notified only if d is one of 0, 1, 7, 15, 30 and the owner's matching
\* preference flag is true, and a document with d < 0 only if it has no
\* unread DOCUMENT_EXPIRED notification; for every other d and for every
\* disabled flag the scan does not notify.
C20_ExpiryGating ==
    [][resp'.op = "check_document_expiry" =>
          \A d \in ScanNotified :
              /\ d \in DocumentsWithExpiry
              /\ Decryptable(documents[d].encrypted_expiry_date)
              /\ LET row == documents[d]
                     days == DecryptText(row.encrypted_expiry_date) - now
                     p == GetOrCreatePrefs(prefs, row.user)[row.user]
                 IN  /\ days >= 0 => OffsetEnabled(p, days)
                     /\ days < 0 => ~ExistsUnread(notifications, row.user, d,
                                                  "DOCUMENT_EXPIRED")]_vars

\* A scan has just notified for one document at an enabled offset and has
\* passed over another one whose offset is switched off or has no alert.
C20_Witness ==
    /\ resp.op = "check_document_expiry"
    /\ \E d \in resp.target :
           OffsetEnabled(prefs[documents[d].user],
                         DecryptText(documents[d].encrypted_expiry_date) - now)
    /\ \E e \in DocumentsWithExpiry \ resp.target :
           /\ Decryptable(documents[e].encrypted_expiry_date)
           /\ DecryptText(documents[e].encrypted_expiry_date) - now \in {0, 1, 7, 15, 30}
           /\ ~OffsetEnabled(prefs[documents[e].user],
                             DecryptText(documents[e].encrypted_expiry_date) - now)

\* Runs other than r that are, like r, between the existence query and the
\* creation for the same alert.
Overlapping(r) ==
    {q \in DOMAIN inflight \ {r} :
        /\ inflight[q].job = inflight[r].job
        /\ \/ inflight[r].job = "expiry" /\ inflight[r].doc # None
                                         /\ inflight[q].doc = inflight[r].doc
           \/ inflight[r].job = "storage" /\ inflight[q].user = inflight[r].user}

\* C21: two overlapping runs of the same notification job (expiry scan or
\* storage check) that have both performed the existence check for the same
\* document or user before either has created its notification each create
\* one, which gives two notifications for the same alert in one window.
C21_OverlappingRunsBothCreate ==
    [][(/\ resp'.op \in {"scan_create", "storage_create"}
        /\ Overlapping(resp'.target) # {})
          => Cardinality(DOMAIN notifications')
                 = Cardinality(DOMAIN notifications) + 1]_vars

\* Two storage checks of one user overlapped and both created: two alerts
\* of the user on one day.
StorageRaceReached ==
    /\ resp.op = "storage_create"
    /\ Cardinality(StorageAlertsSince(notifications, resp.user, now)) = 2

\* C22: folder validation prevents circular references: after any sequence
\* of folder create and update requests the parent relation has no cycle,
\* so the recursive walks of _build_tree and document_count end for every
\* folder.
C22_ParentRelationAcyclic ==
    \A f \in DOMAIN folders : ~DocumentCountLoops(folders, f)

\* ------------------------------------------------------------------------
\* Claims about Google login, tokens and registration
\* ------------------------------------------------------------------------
\* The users a Google identity matches: those with its google_id, or else
\* those with its email.
IdentityMatches(u, request) ==
    IF UsersWith(u, "google_id", request.google_id) # {}
    THEN UsersWith(u, "google_id", request.google_id)
    ELSE UsersWith(u, "email", request.email)

\* C23: google_login with a valid identity token returns the existing User
\* matching the token's google_id, or else its email, linking google_id if
\* it was unset, and never creates a second User for that identity; it
\* creates a new User only when neither matches and a mobile_number is
\* supplied; with no match and no mobile_number it answers 400 and creates
\* no User and no Device.
C23_GoogleFindOrCreate ==
    [][(resp'.op = "google_login" /\ resp'.target.google_id # NullText) =>
          LET request == resp'.target
              matched == IdentityMatches(users, request)
          IN  /\ matched # {} =>
                    /\ DOMAIN users' = DOMAIN users
                    /\ resp'.user \in matched
                    /\ users'[resp'.user].google_id =
                           IF users[resp'.user].google_id = NullText
                           THEN request.google_id
                           ELSE users[resp'.user].google_id
              /\ DOMAIN users' # DOMAIN users =>
                    /\ matched = {}
                    /\ request.mobile_number # Missing
                    /\ Cardinality(DOMAIN users' \ DOMAIN users) = 1
              /\ Cardinality(UsersWith(users', "google_id", request.google_id)) <= 1
              /\ Cardinality(UsersWith(users', "email", request.email)) <= 1
              /\ (matched = {} /\ request.mobile_number = Missing) =>
                    /\ resp'.status = 400
                    /\ users' = users
                    /\ devices' = devices]_vars

\* A Google login has just returned a user it found by email and linked.
C23_Witness ==
    /\ resp.op = "google_login"
    /\ resp.status = 200
    /\ resp.user = "alice"
    /\ users["alice"].google_id = "g-alice"
    /\ users["alice"].auth_provider = "local"

\* The tier limits in MiB: FREE 1 GiB, PREMIUM 25 GiB, FAMILY 100 GiB,
\* LIFETIME 10 GiB, any other tier as FREE.
TierLimitMiB(tier) ==
    CASE tier = "PREMIUM" -> 25 * 1024
      [] tier = "FAMILY" -> 100 * 1024
      [] tier = "LIFETIME" -> 10 * 1024
      [] OTHER -> 1024

\* C24: an upload of size s by a user with storage_used u and tier limit L
\* is accepted if and only if u + s <= L, and with requests processed one
\* at a time from storage_used 0, storage_used never exceeds L.
C24_QuotaIff ==
    [][/\ resp'.op = "upload" =>
            LET row == users[resp'.user]
                L == TierLimitMiB(row.subscription_tier)
            IN  /\ resp'.status = 201 <=> row.storage_used + resp'.size <= L
                /\ resp'.status # 201 => resp'.detail = "file"
       /\ \A u \in DOMAIN users' :
              /\ users'[u].storage_used <= TierLimitMiB(users'[u].subscription_tier)
              /\ users'[u].storage_used >= 0]_vars

\* An upload has just filled a PREMIUM account exactly to its limit.
C24_Witness ==
    /\ resp.op = "upload"
    /\ resp.status = 201
    /\ users[resp.user].subscription_tier = "PREMIUM"
    /\ users[resp.user].storage_used = 25 * 1024

\* ------------------------------------------------------------------------
\* Claims about soft-deleted documents and expiry date changes
\* ------------------------------------------------------------------------
\* The soft-deleted documents.
Trash == {d \in DOMAIN documents : documents[d].is_deleted}

\* C25: once a document is soft-deleted it is absent from list, retrieve,
\* download, versions, folder-tree and move results, and any further DELETE
\* for it is answered 404 without changing storage_used, so a sequence of
\* DELETE requests for one document lowers storage_used by its file_size
\* exactly once.
C25_SoftDeletedAbsent ==
    [][LET op == resp'.op
       IN  /\ op = "list_documents" => resp'.target \cap Trash = {}
           /\ (op \in {"retrieve_document", "download", "versions", "delete"}
                 /\ resp'.target \in Trash) =>
                 /\ resp'.status = 404
                 /\ users' = users
                 /\ documents' = documents
           /\ (op = "folder_tree" /\ resp'.status = 200) =>
                 resp'.size = Cardinality({d \in DOMAIN documents \ Trash :
                                  documents[d].folder \in Subtree(resp'.target)})
           /\ op = "move" =>
                 /\ \A d \in Trash : documents'[d] = documents[d]
                 /\ resp'.status = 200 =>
                        resp'.count = Cardinality(resp'.target.document_ids
                                          \cap (DOMAIN documents \ Trash))
           /\ (op = "delete" /\ resp'.status = 200) =>
                 /\ resp'.target \notin Trash
                 /\ users'[resp'.user].storage_used =
                        users[resp'.user].storage_used
                            - documents[resp'.target].file_size]_vars

\* A second DELETE for a soft-deleted document filed in a folder has just
\* been answered 404.
C25_Witness ==
    /\ resp.op = "delete"
    /\ resp.status = 404
    /\ resp.target \in Trash
    /\ documents[resp.target].folder # None

\* C26: when an existing document is saved with an encrypted_expiry_date
\* different from the stored one, every unread DOCUMENT_EXPIRY and
\* DOCUMENT_EXPIRED notification of that document is deleted, while read
\* notifications, notifications of other types and notifications of other
\* documents are left unchanged; a save that does not change the expiry
\* date deletes nothing.
C26_ExpiryChangeFrame ==
    [][(resp'.op \in {"document_expiry_update", "delete"} /\ resp'.status = 200) =>
          LET d == IF resp'.op = "delete" THEN resp'.target
                   ELSE resp'.target.document
              changed == documents'[d].encrypted_expiry_date
                             # documents[d].encrypted_expiry_date
              gone == {i \in DOMAIN notifications :
                          /\ changed
                          /\ notifications[i].document = d
                          /\ notifications[i].notification_type
                                 \in {"DOCUMENT_EXPIRY", "DOCUMENT_EXPIRED"}
                          /\ ~notifications[i].is_read}
          IN  /\ DOMAIN notifications' = DOMAIN notifications \ gone
              /\ \A i \in DOMAIN notifications' :
                     notifications'[i] = notifications[i]]_vars

\* A changed expiry date has just removed an unread expiry notification of
\* the document and left another notification in place.
C26_Witness ==
    /\ resp.op = "document_expiry_update"
    /\ resp.status = 200
    /\ resp.count = 1
    /\ notifications # EmptyTable

\* The users of table u that hold verification token t.
HoldersOf(u, t) == UsersWith(u, "email_verification_token", t)

\* C27: an email-verification token verifies at most once: a successful
\* verify_email clears the token, a token that no user holds is answered
\* 400, a resend replaces the user's token so that the old one is held by
\* nobody, and a token that has been issued and is no longer held is never
\* held again.
C27_TokenVerifiesOnce ==
    [][/\ (resp'.op = "verify_email" /\ resp'.status = 200) =>
              /\ HoldersOf(users, resp'.target) # {}
              /\ HoldersOf(users', resp'.target) = {}
       /\ (resp'.op = "verify_email" /\ resp'.target # None
               /\ HoldersOf(users, resp'.target) = {}) =>
              /\ resp'.status = 400
              /\ users' = users
       /\ (resp'.op = "resend_verification" /\ resp'.status # 400) =>
              /\ users[resp'.user].email_verification_token # resp'.target
              /\ users'[resp'.user].email_verification_token = resp'.target
              /\ users[resp'.user].email_verification_token # None =>
                     HoldersOf(users', users[resp'.user].email_verification_token) = {}
       /\ \A t \in 1..issued :
              HoldersOf(users, t) = {} => HoldersOf(users', t) = {}]_vars

\* A token that was issued and has since been used or replaced is
\* presented and refused.
C27_Witness ==
    /\ resp.op = "verify_email"
    /\ resp.status = 400
    /\ resp.target \in 1..issued
    /\ \E n \in DOMAIN users :
           /\ users[n].auth_provider = "local"
           /\ users[n].email_verified
           /\ users[n].email_verification_token = None
    /\ issued >= 2

\* ------------------------------------------------------------------------
\* Claims about overlapping requests and about issued tokens
\* ------------------------------------------------------------------------
\* The sum of file_size over the documents ids.
RECURSIVE SizeOf(_)
SizeOf(ids) ==
    IF ids = {} THEN 0
    ELSE LET d == CHOOSE x \in ids : TRUE
         IN  documents[d].file_size + SizeOf(ids \ {d})

\* C28: in every state reachable by overlapping upload and soft-delete
\* requests of one user, storage_used equals the sum of file_size over the
\* user's documents that are not deleted, and is never negative.
C28_StorageUsedIsSum ==
    \A u \in DOMAIN users :
        /\ users[u].storage_used = SizeOf(VisibleDocuments(u))
        /\ users[u].storage_used >= 0

\* The counter has gone below zero.
StorageUsedNegative == \E u \in DOMAIN users : users[u].storage_used < 0

\* C29: every access/refresh token pair issued by login or google_login
\* is issued to a user whose email_verified is true at that moment.
C29_TokensOnlyToVerified ==
    (resp.op \in {"login", "google_login"} /\ resp.detail = "tokens") =>
        users[resp.user].email_verified

\* C30: a register request that is not answered 201 leaves no User row
\* behind, so the same username, email and mobile number can still be
\* registered afterwards.
C30_RegisterNoPartialState ==
    [][(resp'.op = "register" /\ resp'.status # 201) => users' = users]_vars

====
